---------------------------- MODULE Spec2Model ----------------------------
(***************************************************************************)
(* Binance futures aggressive-flow monitor: the rolling trade window, the  *)
(* signal engine with its four filters, the cooldown manager, the alert    *)
(* manager and the BTC volatility poll, as state machines.                 *)
(*                                                                         *)
(* Numbers.  The source computes with IEEE doubles.  Here prices,          *)
(* quantities and thresholds are integers and every quotient the source    *)
(* compares (dominance, price change, normalized aggression) is kept as an *)
(* exact fraction [n, d] with d > 0 and compared by cross-multiplication.  *)
(* Time.  Date.now() is the variable now, in clock units; one minute of    *)
(* the source (60 * 1000 ms) is MsPerMinute units.                         *)
(***************************************************************************)
EXTENDS Integers, Sequences, FiniteSets, TLC

\* ------------------------------------------------------------------ bounds
\* clock units per minute (the source's 60 * 1000)
MsPerMinute == 2
\* clock ticks in one run
MaxTicks == 4
\* recordAlert calls in one run of the cooldown specification
MaxRecords == 2
\* shouldAlert evaluations in one run of the signal-engine specification
MaxEvals == 2
\* clock steps in one run of the signal-engine specification
EngTicks == 1
\* clock ticks in one run of the snapshot specification
StatTicks == 2
\* clock ticks in one run of the shutdown specification
ShutTicks == 1
\* clock ticks in one run of the feed specification
FeedTicks == 1
\* clock ticks in one run of the connection specification
ConnTicks == 3
\* CONFIG.MAX_RECONNECTS (10 unless the environment sets it)
MAX_RECONNECTS == 2
\* recordStopLoss calls in one run of the stop-cluster specification
MaxStopCalls == 3
\* checkBTC invocations in one run of the kill-switch specification
MaxPolls == 4
\* messages the streams deliver in one run of the pipeline
MaxMsgs == 2
\* addTrade calls in one run of the aggregator specification
MaxTrades == 2
\* messages the streams deliver in one run of the end-to-end specification
E2EMsgs == 3
\* clock ticks of the dispatch specification while no timer is waiting
LiveTicks == 2
\* clock ticks and messages in one run of the src/index.js specification
GateTicks == 3
GateMsgs == 3
\* greatest trade timestamp the feed sends in the aggregator specification
MaxTs == 4

\* ------------------------------------------------------- program constants
\* CONFIG.WINDOW_SECONDS * 1000 in clock units (a one-minute window)
WindowMs == 2

Symbols == {"ADAUSDT", "XRPUSDT"}
Sides == {"buy", "sell"}
Prices == {1, 2}
Quantities == {1, 2}

\* JavaScript null / undefined for an optional number: no element
Null == << >>
Some(v) == << v >>
Val(o) == o[1]

Max(a, b) == IF a >= b THEN a ELSE b
Min(a, b) == IF a <= b THEN a ELSE b
Abs(a) == IF a < 0 THEN -a ELSE a

RECURSIVE SeqSum(_)
SeqSum(s) == IF s = << >> THEN 0 ELSE Head(s) + SeqSum(Tail(s))

RECURSIVE SeqMax(_)
SeqMax(s) == IF Len(s) = 1 THEN s[1] ELSE Max(Head(s), SeqMax(Tail(s)))

RECURSIVE SeqMin(_)
SeqMin(s) == IF Len(s) = 1 THEN s[1] ELSE Min(Head(s), SeqMin(Tail(s)))

Map(s, F(_)) == [i \in 1..Len(s) |-> F(s[i])]

\* exact fractions with positive denominator
Rat(n, d) == [n |-> n, d |-> d]
RatLt(a, b) == a.n * b.d < b.n * a.d
RatGe(a, b) == ~RatLt(a, b)
RatAbs(a) == Rat(Abs(a.n), a.d)

VARIABLES
  now,               \* Date.now()
  symbolConfigs,     \* RuntimeConfig.symbolConfigs
  advancedFilters,   \* RuntimeConfig.advancedFilters
  states,            \* TradeAggregator.states: symbol -> SymbolState
  aggressionHistory, \* AggressionDecayFilter.aggressionHistory
  stopLossEvents,    \* StopClusterProtection.stopLossEvents
  stopPausedUntil,   \* StopClusterProtection.pausedUntil
  btcPriceHistory,   \* BTCVolatilityFilter.btcPriceHistory
  btcPausedUntil,    \* BTCVolatilityFilter.pausedUntil
  lastBTCPrice,      \* BTCVolatilityFilter.lastBTCPrice
  lastAlertTime,     \* BTCVolatilityFilter.lastAlertTime
  btcAlerts,         \* BTCVolatilityFilter.btcAlerts
  btcPolls,          \* checkBTC invocations waiting for the price response
  lastAlerts,        \* CooldownManager.lastAlerts: key -> time, 0 for no entry
  pendingAlerts,     \* AlertManager.pendingAlerts (its keys)
  alertCount,        \* AlertManager.alertCount
  timers,            \* the dispatch timers sendAlert has set, and their callbacks
  sockets,           \* the WebSockets that have not closed: symbol, number, state
  connections,       \* MultiWebSocketManager.connections: symbol -> number of its latest socket
  reconnectAttempts, \* MultiWebSocketManager.reconnectAttempts: symbol -> count, 0 for no entry
  connTimers,        \* the timers of connectAll and reconnectSymbol that have not run
  abandoned,         \* history: a close of the symbol found the attempts used up
  closesSinceOpen,   \* history: closes of the symbol's sockets since its last open
  shutdownPhase,     \* where shutdown() is: "running" before it is called, "stopping"
                     \* while it awaits its last message, "exited" after process.exit
  indexJs,           \* the objects of src/index.js, the variant of the program whose
                     \* handleMessage has a per-minute gate: the fields of its
                     \* managers, and the history of its evaluations
  recorded,          \* history: the trades recorded per symbol since its last reset
  inOrder,           \* history: no addTrade of the symbol went back in time
  maxTs,             \* history: greatest timestamp ever recorded per symbol
  nTrades,           \* history: messages / addTrade / recordAlert calls so far
  lastOp,            \* history: the operation that made the last step
  obs,               \* history: what that operation was given and returned
  evals,             \* history: two shouldAlert evaluations, inputs and results
  lastFired,         \* history: per key, when an alert was last recorded
  lastRec,           \* history: the latest recordAlert: key, time, cooldownMinutes
  cdChanged          \* history: some cooldownMinutes has been changed

cfgVars == <<symbolConfigs, advancedFilters>>
aggVars == <<states>>
filterVars == <<aggressionHistory, stopLossEvents, stopPausedUntil>>
btcVars == <<btcPriceHistory, btcPausedUntil, lastBTCPrice, lastAlertTime, btcAlerts,
             btcPolls>>
cdVars == <<lastAlerts>>
alertVars == <<pendingAlerts, alertCount, timers>>
connVars == <<sockets, connections, reconnectAttempts, connTimers, abandoned, closesSinceOpen,
              shutdownPhase, indexJs>>
tradeHist == <<recorded, inOrder, maxTs, nTrades>>
fireHist == <<lastFired, lastRec, cdChanged>>
\* everything the program itself holds
progVars == <<cfgVars, aggVars, filterVars, btcVars, cdVars, alertVars>>
vars == <<now, progVars, connVars, tradeHist, lastOp, obs, evals, fireHist>>

Keys == Symbols \X Sides

\* ------------------------------------------------------------ SymbolState
NewSymbolState ==
  [trades |-> << >>, firstPrice |-> Null, lastPrice |-> Null,
   highPrice |-> Null, lowPrice |-> Null]

TradePrice(t) == t.price
TradeBuyVol(t) == t.buyVol
TradeSellVol(t) == t.sellVol

\* mutant: the eviction also drops the trade exactly at the cutoff
cleanup_strict(st, currentTime) ==
  LET cutoff == currentTime - WindowMs
      kept == SelectSeq(st.trades, LAMBDA t : t.timestamp > cutoff)
  IN IF Len(kept) > 0
     THEN [st EXCEPT !.trades = kept,
                     !.firstPrice = Some(kept[1].price),
                     !.highPrice = Some(SeqMax(Map(kept, TradePrice))),
                     !.lowPrice = Some(SeqMin(Map(kept, TradePrice)))]
     ELSE [st EXCEPT !.trades = kept, !.firstPrice = Null,
                     !.highPrice = Null, !.lowPrice = Null]

\* mutant: the eviction filters the trades and keeps the prices it had
cleanup_stalePrices(st, currentTime) ==
  LET cutoff == currentTime - WindowMs
      kept == SelectSeq(st.trades, LAMBDA t : t.timestamp >= cutoff)
  IN [st EXCEPT !.trades = kept]

cleanup(st, currentTime) ==
  LET cutoff == currentTime - WindowMs
      kept == SelectSeq(st.trades, LAMBDA t : t.timestamp >= cutoff)
  IN IF Len(kept) > 0
     THEN [st EXCEPT !.trades = kept,
                     !.firstPrice = Some(kept[1].price),
                     !.highPrice = Some(SeqMax(Map(kept, TradePrice))),
                     !.lowPrice = Some(SeqMin(Map(kept, TradePrice)))]
     ELSE [st EXCEPT !.trades = kept, !.firstPrice = Null,
                     !.highPrice = Null, !.lowPrice = Null]

addTrade(st, timestamp, price, quantity, isBuyerMaker) ==
  LET volume == price * quantity
      trade == [timestamp |-> timestamp, price |-> price,
                buyVol |-> IF isBuyerMaker THEN 0 ELSE volume,
                sellVol |-> IF isBuyerMaker THEN volume ELSE 0]
      pushed == [st EXCEPT
                   !.trades = Append(@, trade),
                   !.lastPrice = Some(price),
                   !.firstPrice = IF st.firstPrice = Null THEN Some(price) ELSE @,
                   !.highPrice = IF st.firstPrice = Null THEN Some(price)
                                 ELSE Some(Max(Val(@), price)),
                   !.lowPrice = IF st.firstPrice = Null THEN Some(price)
                                ELSE Some(Min(Val(@), price))]
  IN cleanup(pushed, timestamp)

\* a JavaScript number used as a condition: null and 0 are falsy
Truthy(o) == o # Null /\ Val(o) # 0

\* mutant: the snapshot is built also when the window's volume is zero
getStats_noZeroGuard(st) ==
  IF Len(st.trades) = 0 THEN Null
  ELSE LET buyVolume == SeqSum(Map(st.trades, TradeBuyVol))
           sellVolume == SeqSum(Map(st.trades, TradeSellVol))
           totalVolume == buyVolume + sellVolume
       IN Some(
            [buyVolume |-> buyVolume,
             sellVolume |-> sellVolume,
             totalVolume |-> totalVolume,
             dominantSide |-> IF buyVolume > sellVolume THEN "buy" ELSE "sell",
             dominance |-> Rat(Max(buyVolume, sellVolume) * 100, totalVolume),
             priceChange |-> IF Truthy(st.firstPrice)
                             THEN Rat((Val(st.lastPrice) - Val(st.firstPrice)) * 100,
                                      Val(st.firstPrice))
                             ELSE Rat(0, 1),
             priceRange |-> IF Truthy(st.highPrice) /\ Truthy(st.lowPrice)
                            THEN Val(st.highPrice) - Val(st.lowPrice) ELSE 0,
             duration |-> st.trades[Len(st.trades)].timestamp - st.trades[1].timestamp,
             tradeCount |-> Len(st.trades),
             lastPrice |-> st.lastPrice,
             highPrice |-> st.highPrice,
             lowPrice |-> st.lowPrice])

getStats(st) ==
  IF Len(st.trades) = 0 THEN Null
  ELSE LET buyVolume == SeqSum(Map(st.trades, TradeBuyVol))
           sellVolume == SeqSum(Map(st.trades, TradeSellVol))
           totalVolume == buyVolume + sellVolume
       IN IF totalVolume = 0 THEN Null
          ELSE Some(
            [buyVolume |-> buyVolume,
             sellVolume |-> sellVolume,
             totalVolume |-> totalVolume,
             dominantSide |-> IF buyVolume > sellVolume THEN "buy" ELSE "sell",
             dominance |-> Rat(Max(buyVolume, sellVolume) * 100, totalVolume),
             priceChange |-> IF Truthy(st.firstPrice)
                             THEN Rat((Val(st.lastPrice) - Val(st.firstPrice)) * 100,
                                      Val(st.firstPrice))
                             ELSE Rat(0, 1),
             priceRange |-> IF Truthy(st.highPrice) /\ Truthy(st.lowPrice)
                            THEN Val(st.highPrice) - Val(st.lowPrice) ELSE 0,
             duration |-> st.trades[Len(st.trades)].timestamp - st.trades[1].timestamp,
             tradeCount |-> Len(st.trades),
             lastPrice |-> st.lastPrice,
             highPrice |-> st.highPrice,
             lowPrice |-> st.lowPrice])

\* mutant: reset leaves the trades in place
reset_keepsTrades(st) == st

reset(st) ==
  [st EXCEPT !.trades = << >>, !.firstPrice = Null, !.lastPrice = Null,
             !.highPrice = Null, !.lowPrice = Null]

\* --------------------------------------------------------- TradeAggregator
Aggregator_addTrade(sts, symbol, timestamp, price, quantity, isBuyerMaker) ==
  LET st == IF symbol \in DOMAIN sts THEN sts[symbol] ELSE NewSymbolState
  IN [s \in (DOMAIN sts) \cup {symbol} |->
        IF s = symbol THEN addTrade(st, timestamp, price, quantity, isBuyerMaker)
        ELSE sts[s]]

Aggregator_getStats(sts, symbol) ==
  IF symbol \in DOMAIN sts THEN getStats(sts[symbol]) ELSE Null

Aggregator_resetSymbol(sts, symbol) ==
  IF symbol \in DOMAIN sts THEN [sts EXCEPT ![symbol] = reset(@)] ELSE sts

\* the empty Map of the constructor
EmptyMap == [s \in {} |-> NewSymbolState]

\* ----------------------------------------------------------- RuntimeConfig
\* a symbol configuration with thresholds the model's small trades can meet
\* (each value is one RuntimeConfig.set accepts)
\* minPriceChange is kept in hundredths of a percent (0.6 is 60)
SmallConfig ==
  [minVolumeUSD |-> 2, minDominance |-> 65, minPriceChange |-> 0,
   cooldownMinutes |-> 1, enabled |-> TRUE]

\* runtimeConfig.get(symbol): the symbol's configuration or null
RuntimeConfig_get(cfgs, symbol) ==
  IF symbol \in DOMAIN cfgs THEN Some(cfgs[symbol]) ELSE Null

ValidParams == {"minVolumeUSD", "minDominance", "minPriceChange", "cooldownMinutes"}

\* mutant: minDominance is only required to be >= 0, as the other fields are
RuntimeConfig_set_looseDominance(cfgs, symbol, param, value) ==
  IF symbol \notin DOMAIN cfgs \/ param \notin ValidParams \/ value = Null
       \/ Val(value) < 0
    THEN [ok |-> FALSE, error |-> "rejected", cfgs |-> cfgs, oldValue |-> 0,
          newValue |-> 0]
  ELSE [ok |-> TRUE, error |-> "",
        cfgs |-> [cfgs EXCEPT ![symbol][param] = Val(value)],
        oldValue |-> cfgs[symbol][param], newValue |-> Val(value)]

\* mutant: the value is stored before its range is tested
RuntimeConfig_set_writeFirst(cfgs, symbol, param, value) ==
  IF symbol \notin DOMAIN cfgs \/ param \notin ValidParams \/ value = Null
    THEN [ok |-> FALSE, error |-> "rejected", cfgs |-> cfgs, oldValue |-> 0,
          newValue |-> 0]
  ELSE [ok |-> ~ \/ Val(value) < 0
                 \/ (param = "minDominance" /\ (Val(value) < 50 \/ Val(value) > 100)),
        error |-> "",
        cfgs |-> [cfgs EXCEPT ![symbol][param] = Val(value)],
        oldValue |-> cfgs[symbol][param], newValue |-> Val(value)]

\* set(symbol, param, value); value is what parseFloat made of the text:
\* Null for NaN, else the number.  The result carries the new configuration.
RuntimeConfig_set(cfgs, symbol, param, value) ==
  LET fail(msg) == [ok |-> FALSE, error |-> msg, cfgs |-> cfgs,
                    oldValue |-> 0, newValue |-> 0]
  IN IF symbol \notin DOMAIN cfgs THEN fail("Symbol not found")
     ELSE IF param \notin ValidParams THEN fail("Invalid parameter")
     ELSE IF value = Null THEN fail("Invalid value")
     ELSE LET numValue == Val(value)
          IN IF param = "minVolumeUSD" /\ numValue < 0
               THEN fail("minVolumeUSD must be >= 0")
             ELSE IF param = "minDominance" /\ (numValue < 50 \/ numValue > 100)
               THEN fail("minDominance must be between 50 and 100")
             ELSE IF param = "minPriceChange" /\ numValue < 0
               THEN fail("minPriceChange must be >= 0")
             ELSE IF param = "cooldownMinutes" /\ numValue < 0
               THEN fail("cooldownMinutes must be >= 0")
             ELSE [ok |-> TRUE, error |-> "",
                   cfgs |-> [cfgs EXCEPT ![symbol][param] = numValue],
                   oldValue |-> cfgs[symbol][param], newValue |-> numValue]

\* enable(symbol) and disable(symbol): the new configuration, or a failure
RuntimeConfig_enable(cfgs, symbol) ==
  IF symbol \notin DOMAIN cfgs THEN [ok |-> FALSE, cfgs |-> cfgs]
  ELSE [ok |-> TRUE, cfgs |-> [cfgs EXCEPT ![symbol].enabled = TRUE]]

RuntimeConfig_disable(cfgs, symbol) ==
  IF symbol \notin DOMAIN cfgs THEN [ok |-> FALSE, cfgs |-> cfgs]
  ELSE [ok |-> TRUE, cfgs |-> [cfgs EXCEPT ![symbol].enabled = FALSE]]

\* a command argument: its text, and what parseFloat makes of it (Null for NaN)
TextValue(text) == [text |-> text, num |-> Null]
NumValue(n) == [text |-> "number", num |-> Some(n)]

\* setFilterParam(filterName, param, value).  The result carries the new
\* advancedFilters; a field that did not exist has oldValue Null (undefined).
setFilterParam(filters, filterName, param, value) ==
  LET fail(msg) == [ok |-> FALSE, error |-> msg, filters |-> filters,
                    oldValue |-> Null, newValue |-> Null]
  IN IF filterName \notin DOMAIN filters THEN fail("Filter not found")
     ELSE IF param = "enabled"
       THEN LET boolValue == value.text = "true"
            IN [ok |-> TRUE, error |-> "",
                filters |-> [filters EXCEPT ![filterName] =
                               ("enabled" :> boolValue) @@ filters[filterName]],
                oldValue |-> Some(~boolValue), newValue |-> Some(boolValue)]
     ELSE IF value.num = Null THEN fail("Invalid value")
     ELSE [ok |-> TRUE, error |-> "",
           filters |-> [filters EXCEPT ![filterName] =
                          (param :> Val(value.num)) @@ filters[filterName]],
           oldValue |-> IF param \in DOMAIN filters[filterName]
                        THEN Some(filters[filterName][param]) ELSE Null,
           newValue |-> value.num]

\* ---------------------------------------------------- AggressionDecayFilter
RatAdd(a, b) == Rat(a.n * b.d + b.n * a.d, a.d * b.d)

RECURSIVE RatSum(_)
RatSum(s) == IF s = << >> THEN Rat(0, 1) ELSE RatAdd(Head(s), RatSum(Tail(s)))

CeilDiv(a, b) == (a + b - 1) \div b

normalizedAggression(buyVolume, sellVolume, priceRange) ==
  LET dominantVolume == Max(buyVolume, sellVolume)
  IN IF priceRange > 0 THEN Rat(dominantVolume, priceRange)
     ELSE Rat(dominantVolume, 1)

\* the new aggressionHistory map
recordAggression(hist, filters, symbol, timestamp, buyVolume, sellVolume, priceRange) ==
  LET had == [s \in (DOMAIN hist) \cup {symbol} |->
                IF s \in DOMAIN hist THEN hist[s] ELSE << >>]
      totalVolume == buyVolume + sellVolume
      pushed == Append(had[symbol],
                       [timestamp |-> timestamp,
                        normalizedAggression |->
                          normalizedAggression(buyVolume, sellVolume, priceRange)])
      cutoff == timestamp - filters.aggressionDecay.lookbackMinutes * MsPerMinute
  IN IF totalVolume = 0 THEN had
     ELSE [had EXCEPT ![symbol] = SelectSeq(pushed, LAMBDA h : h.timestamp >= cutoff)]

\* mutant: the current reading is compared with the sum of the stored
\* readings, not with their average
shouldAllowEntry_sumNotAverage(hist, filters, symbol, currentBuyVol, currentSellVol, currentPriceRange) ==
  LET config == filters.aggressionDecay
  IN IF ~config.enabled
       THEN [allowed |-> TRUE, reason |-> "Aggression decay filter disabled", args |-> << >>]
     ELSE IF symbol \notin DOMAIN hist \/ Len(hist[symbol]) < config.minCandles
       THEN [allowed |-> TRUE, reason |-> "Insufficient aggression history", args |-> << >>]
     ELSE IF currentBuyVol + currentSellVol = 0
       THEN [allowed |-> FALSE, reason |-> "No volume", args |-> << >>]
     ELSE
       LET history == hist[symbol]
           currentAggression ==
             normalizedAggression(currentBuyVol, currentSellVol, currentPriceRange)
           sum == RatSum(Map(history, LAMBDA h : h.normalizedAggression))
           \* sum / length; 0 / 0 is NaN, and NaN > 0 is false
           avgPositive == Len(history) > 0 /\ sum.n > 0
           ratio == IF avgPositive
                    THEN Rat(currentAggression.n * sum.d,
                             currentAggression.d * sum.n)
                    ELSE Rat(1, 1)
           allowed == RatLt(ratio, Rat(config.decayThreshold, 100))
       IN [allowed |-> allowed,
           reason |-> IF allowed THEN "Aggression decaying" ELSE "Aggression still high",
           args |-> <<ratio.n, ratio.d, config.decayThreshold>>]

\* decayThreshold is kept in hundredths (0.85 is 85)
shouldAllowEntry(hist, filters, symbol, currentBuyVol, currentSellVol, currentPriceRange) ==
  LET config == filters.aggressionDecay
  IN IF ~config.enabled
       THEN [allowed |-> TRUE, reason |-> "Aggression decay filter disabled", args |-> << >>]
     ELSE IF symbol \notin DOMAIN hist \/ Len(hist[symbol]) < config.minCandles
       THEN [allowed |-> TRUE, reason |-> "Insufficient aggression history", args |-> << >>]
     ELSE IF currentBuyVol + currentSellVol = 0
       THEN [allowed |-> FALSE, reason |-> "No volume", args |-> << >>]
     ELSE
       LET history == hist[symbol]
           currentAggression ==
             normalizedAggression(currentBuyVol, currentSellVol, currentPriceRange)
           sum == RatSum(Map(history, LAMBDA h : h.normalizedAggression))
           \* sum / length; 0 / 0 is NaN, and NaN > 0 is false
           avgPositive == Len(history) > 0 /\ sum.n > 0
           ratio == IF avgPositive
                    THEN Rat(currentAggression.n * sum.d * Len(history),
                             currentAggression.d * sum.n)
                    ELSE Rat(1, 1)
           allowed == RatLt(ratio, Rat(config.decayThreshold, 100))
       IN [allowed |-> allowed,
           reason |-> IF allowed THEN "Aggression decaying" ELSE "Aggression still high",
           args |-> <<ratio.n, ratio.d, config.decayThreshold>>]

\* ---------------------------------------------------- StopClusterProtection
\* the new [stopLossEvents, pausedUntil]
\* mutant: old events are never evicted and keep counting
recordStopLoss_noEvict(events, pausedUntil, filters, t, symbol) ==
  LET config == filters.stopCluster
      pushed == Append(events, [timestamp |-> t, symbol |-> symbol])
  IN IF ~config.enabled
       THEN [stopLossEvents |-> events, pausedUntil |-> pausedUntil]
     ELSE [stopLossEvents |-> pushed,
           pausedUntil |-> IF Len(pushed) >= config.maxStops
                           THEN t + config.pauseMinutes * MsPerMinute
                           ELSE pausedUntil]

recordStopLoss(events, pausedUntil, filters, t, symbol) ==
  LET config == filters.stopCluster
      pushed == Append(events, [timestamp |-> t, symbol |-> symbol])
      cutoff == t - config.timeWindowMinutes * MsPerMinute
      kept == SelectSeq(pushed, LAMBDA e : e.timestamp >= cutoff)
  IN IF ~config.enabled
       THEN [stopLossEvents |-> events, pausedUntil |-> pausedUntil]
     ELSE [stopLossEvents |-> kept,
           pausedUntil |-> IF Len(kept) >= config.maxStops
                           THEN t + config.pauseMinutes * MsPerMinute
                           ELSE pausedUntil]

\* mutant: the pause is taken to end a minute early
StopCluster_isTradingAllowed_early(pausedUntil, filters, t) ==
  IF ~filters.stopCluster.enabled
    THEN [allowed |-> TRUE, reason |-> "Stop cluster protection disabled", args |-> << >>]
  ELSE IF t + MsPerMinute < pausedUntil
    THEN [allowed |-> FALSE, reason |-> "Stop cluster pause active",
          args |-> <<CeilDiv(pausedUntil - t, MsPerMinute)>>]
  ELSE [allowed |-> TRUE, reason |-> "No stop cluster detected", args |-> << >>]

StopCluster_isTradingAllowed(pausedUntil, filters, t) ==
  IF ~filters.stopCluster.enabled
    THEN [allowed |-> TRUE, reason |-> "Stop cluster protection disabled", args |-> << >>]
  ELSE IF t < pausedUntil
    THEN [allowed |-> FALSE, reason |-> "Stop cluster pause active",
          args |-> <<CeilDiv(pausedUntil - t, MsPerMinute)>>]
  ELSE [allowed |-> TRUE, reason |-> "No stop cluster detected", args |-> << >>]

\* mutant: isTradingAllowed clears a pause that has expired
pausedUntilAfter_clearExpired(pausedUntil, filters, t) ==
  IF t >= pausedUntil THEN 0 ELSE pausedUntil

\* this.pausedUntil after isTradingAllowed (of StopClusterProtection and of
\* BTCVolatilityFilter): the method only reads it
pausedUntilAfter(pausedUntil, filters, t) == pausedUntil

\* ------------------------------------------------------------ TimeBasedFilter
\* new Date().getUTCHours() and getUTCDay(); the epoch began on a Thursday
getUTCHours(t) == (t \div (60 * MsPerMinute)) % 24
getUTCDay(t) == ((t \div (24 * 60 * MsPerMinute)) + 4) % 7

TimeBased_isTradingAllowed(filters, t) ==
  LET config == filters.timeBased
      dayOfWeek == getUTCDay(t)
      hourUTC == getUTCHours(t)
  IN IF ~config.enabled
       THEN [allowed |-> TRUE, reason |-> "Time filter disabled", args |-> << >>]
     ELSE IF dayOfWeek \in config.blockedDays
       THEN [allowed |-> FALSE, reason |-> "Trading blocked on day", args |-> <<dayOfWeek>>]
     ELSE IF hourUTC \in config.blockedHours
       THEN [allowed |-> FALSE, reason |-> "Trading blocked at hour", args |-> <<hourUTC>>]
     ELSE IF hourUTC < config.allowedHoursStart \/ hourUTC >= config.allowedHoursEnd
       THEN [allowed |-> FALSE, reason |-> "Outside trading hours",
             args |-> <<config.allowedHoursStart, config.allowedHoursEnd>>]
     ELSE [allowed |-> TRUE, reason |-> "Trading allowed", args |-> <<hourUTC>>]

\* -------------------------------------------- BTCVolatilityFilter (the gate)
BTC_isTradingAllowed(pausedUntil, filters, t) ==
  IF ~filters.btcVolatility.enabled
    THEN [allowed |-> TRUE, reason |-> "BTC filter disabled", args |-> << >>]
  ELSE IF t < pausedUntil
    THEN [allowed |-> FALSE, reason |-> "BTC volatility pause",
          args |-> <<CeilDiv(pausedUntil - t, MsPerMinute)>>]
  ELSE [allowed |-> TRUE, reason |-> "BTC volatility normal", args |-> << >>]

\* the fields of a BTCVolatilityFilter
BTCState(history, pausedUntil, lastPrice, alertTime, alerts) ==
  [btcPriceHistory |-> history, pausedUntil |-> pausedUntil, lastBTCPrice |-> lastPrice,
   lastAlertTime |-> alertTime, btcAlerts |-> alerts]

\* up to the await of telegram.sendMessage, whose outcome changes nothing
generateBTCAlert(bst, filters, timestamp, currentPrice, change) ==
  LET config == filters.btcVolatility
      btcAlert == [timestamp |-> timestamp, price |-> currentPrice,
                   direction |-> IF change > 0 THEN "UP" ELSE "DOWN",
                   timeframeMinutes |-> config.timeframeMinutes,
                   pauseMinutes |-> config.pauseMinutes]
  IN [bst EXCEPT !.pausedUntil = timestamp + config.pauseMinutes * MsPerMinute,
                 !.btcAlerts = Append(@, btcAlert),
                 !.lastAlertTime = timestamp]

\* the history checkBTC keeps once the price has arrived
btcKept(bst, filters, timestamp, currentPrice) ==
  LET pushed == Append(bst.btcPriceHistory, [timestamp |-> timestamp, price |-> currentPrice])
      cutoff == timestamp - filters.btcVolatility.timeframeMinutes * MsPerMinute
  IN SelectSeq(pushed, LAMBDA h : h.timestamp >= cutoff)

\* mutant: the threshold itself is not a breach
btcBreach_strict(bst, filters, timestamp, currentPrice) ==
  LET kept == btcKept(bst, filters, timestamp, currentPrice)
  IN /\ Len(kept) >= 2
     /\ Abs(currentPrice - kept[1].price) * 100
          > filters.btcVolatility.thresholdPercent * kept[1].price

\* absChange >= config.thresholdPercent, on at least two prices
btcBreach(bst, filters, timestamp, currentPrice) ==
  LET kept == btcKept(bst, filters, timestamp, currentPrice)
  IN /\ Len(kept) >= 2
     /\ Abs(currentPrice - kept[1].price) * 100
          >= filters.btcVolatility.thresholdPercent * kept[1].price

\* mutant: a breach notifies whether or not a pause is running
checkBTC_noPauseCheck(bst, filters, timestamp, currentPrice) ==
  LET kept == btcKept(bst, filters, timestamp, currentPrice)
      after == [bst EXCEPT !.lastBTCPrice = Some(currentPrice), !.btcPriceHistory = kept]
  IN IF btcBreach(bst, filters, timestamp, currentPrice)
       THEN generateBTCAlert(after, filters, timestamp, currentPrice,
                             currentPrice - kept[1].price)
     ELSE after

\* mutant: the kill-switch re-arms a minute before the pause ends
checkBTC_earlyRearm(bst, filters, timestamp, currentPrice) ==
  LET kept == btcKept(bst, filters, timestamp, currentPrice)
      after == [bst EXCEPT !.lastBTCPrice = Some(currentPrice), !.btcPriceHistory = kept]
  IN IF /\ btcBreach(bst, filters, timestamp, currentPrice)
        /\ timestamp + MsPerMinute >= bst.pausedUntil
       THEN generateBTCAlert(after, filters, timestamp, currentPrice,
                             currentPrice - kept[1].price)
     ELSE after

\* checkBTC from the arrival of the price response to its end
checkBTC(bst, filters, timestamp, currentPrice) ==
  LET kept == btcKept(bst, filters, timestamp, currentPrice)
      after == [bst EXCEPT !.lastBTCPrice = Some(currentPrice), !.btcPriceHistory = kept]
  IN IF btcBreach(bst, filters, timestamp, currentPrice) /\ timestamp >= bst.pausedUntil
       THEN generateBTCAlert(after, filters, timestamp, currentPrice,
                             currentPrice - kept[1].price)
     ELSE after

\* ------------------------------------------------------------ SignalEngine
Decision(allow, reason, args) == [allow |-> allow, reason |-> reason, args |-> args]

\* mutant: the direction checks come before the price-change check
shouldAlert_directionFirst(symbol, stats) ==
  LET config == RuntimeConfig_get(symbolConfigs, symbol)
  IN IF stats = Null THEN Decision(FALSE, "No stats", << >>)
     ELSE IF config = Null \/ ~Val(config).enabled
       THEN Decision(FALSE, "Symbol disabled", << >>)
     ELSE
       LET st == Val(stats)
           c == Val(config)
           aggressionCheck ==
             shouldAllowEntry(aggressionHistory, advancedFilters, symbol,
                              st.buyVolume, st.sellVolume, st.priceRange)
           stopCheck == StopCluster_isTradingAllowed(stopPausedUntil, advancedFilters, now)
           timeCheck == TimeBased_isTradingAllowed(advancedFilters, now)
           btcCheck == BTC_isTradingAllowed(btcPausedUntil, advancedFilters, now)
       IN IF st.totalVolume < c.minVolumeUSD
            THEN Decision(FALSE, "Volume too low", <<st.totalVolume, c.minVolumeUSD>>)
          ELSE IF RatLt(st.dominance, Rat(c.minDominance, 1))
            THEN Decision(FALSE, "Dominance too low",
                          <<st.dominance.n, st.dominance.d, c.minDominance>>)
          ELSE IF st.dominantSide = "buy" /\ st.priceChange.n < 0
            THEN Decision(FALSE, "Buy dominance but price down", << >>)
          ELSE IF st.dominantSide = "sell" /\ st.priceChange.n > 0
            THEN Decision(FALSE, "Sell dominance but price up", << >>)
          ELSE IF RatLt(RatAbs(st.priceChange), Rat(c.minPriceChange, 100))
            THEN Decision(FALSE, "Price change too small",
                          <<Abs(st.priceChange.n), st.priceChange.d, c.minPriceChange>>)
          ELSE IF ~aggressionCheck.allowed
            THEN Decision(FALSE,
                          IF aggressionCheck.reason = "No volume"
                          THEN "Aggression: No volume"
                          ELSE "Aggression: Aggression still high",
                          aggressionCheck.args)
          ELSE IF ~stopCheck.allowed
            THEN Decision(FALSE, stopCheck.reason, stopCheck.args)
          ELSE IF ~timeCheck.allowed
            THEN Decision(FALSE, timeCheck.reason, timeCheck.args)
          ELSE IF ~btcCheck.allowed
            THEN Decision(FALSE, btcCheck.reason, btcCheck.args)
          ELSE Decision(TRUE, "All filters passed", << >>)

\* mutant: the dominance threshold is applied to one instrument only
shouldAlert_symbolBias(symbol, stats) ==
  LET config == RuntimeConfig_get(symbolConfigs, symbol)
  IN IF stats = Null THEN Decision(FALSE, "No stats", << >>)
     ELSE IF config = Null \/ ~Val(config).enabled
       THEN Decision(FALSE, "Symbol disabled", << >>)
     ELSE
       LET st == Val(stats)
           c == Val(config)
           aggressionCheck ==
             shouldAllowEntry(aggressionHistory, advancedFilters, symbol,
                              st.buyVolume, st.sellVolume, st.priceRange)
           stopCheck == StopCluster_isTradingAllowed(stopPausedUntil, advancedFilters, now)
           timeCheck == TimeBased_isTradingAllowed(advancedFilters, now)
           btcCheck == BTC_isTradingAllowed(btcPausedUntil, advancedFilters, now)
       IN IF st.totalVolume < c.minVolumeUSD
            THEN Decision(FALSE, "Volume too low", <<st.totalVolume, c.minVolumeUSD>>)
          ELSE IF symbol = "ADAUSDT" /\ RatLt(st.dominance, Rat(c.minDominance, 1))
            THEN Decision(FALSE, "Dominance too low",
                          <<st.dominance.n, st.dominance.d, c.minDominance>>)
          ELSE IF RatLt(RatAbs(st.priceChange), Rat(c.minPriceChange, 100))
            THEN Decision(FALSE, "Price change too small",
                          <<Abs(st.priceChange.n), st.priceChange.d, c.minPriceChange>>)
          ELSE IF st.dominantSide = "buy" /\ st.priceChange.n < 0
            THEN Decision(FALSE, "Buy dominance but price down", << >>)
          ELSE IF st.dominantSide = "sell" /\ st.priceChange.n > 0
            THEN Decision(FALSE, "Sell dominance but price up", << >>)
          ELSE IF ~aggressionCheck.allowed
            THEN Decision(FALSE,
                          IF aggressionCheck.reason = "No volume"
                          THEN "Aggression: No volume"
                          ELSE "Aggression: Aggression still high",
                          aggressionCheck.args)
          ELSE IF ~stopCheck.allowed
            THEN Decision(FALSE, stopCheck.reason, stopCheck.args)
          ELSE IF ~timeCheck.allowed
            THEN Decision(FALSE, timeCheck.reason, timeCheck.args)
          ELSE IF ~btcCheck.allowed
            THEN Decision(FALSE, btcCheck.reason, btcCheck.args)
          ELSE Decision(TRUE, "All filters passed", << >>)

shouldAlert(symbol, stats) ==
  LET config == RuntimeConfig_get(symbolConfigs, symbol)
  IN IF stats = Null THEN Decision(FALSE, "No stats", << >>)
     ELSE IF config = Null \/ ~Val(config).enabled
       THEN Decision(FALSE, "Symbol disabled", << >>)
     ELSE
       LET st == Val(stats)
           c == Val(config)
           aggressionCheck ==
             shouldAllowEntry(aggressionHistory, advancedFilters, symbol,
                              st.buyVolume, st.sellVolume, st.priceRange)
           stopCheck == StopCluster_isTradingAllowed(stopPausedUntil, advancedFilters, now)
           timeCheck == TimeBased_isTradingAllowed(advancedFilters, now)
           btcCheck == BTC_isTradingAllowed(btcPausedUntil, advancedFilters, now)
       IN IF st.totalVolume < c.minVolumeUSD
            THEN Decision(FALSE, "Volume too low", <<st.totalVolume, c.minVolumeUSD>>)
          ELSE IF RatLt(st.dominance, Rat(c.minDominance, 1))
            THEN Decision(FALSE, "Dominance too low",
                          <<st.dominance.n, st.dominance.d, c.minDominance>>)
          ELSE IF RatLt(RatAbs(st.priceChange), Rat(c.minPriceChange, 100))
            THEN Decision(FALSE, "Price change too small",
                          <<Abs(st.priceChange.n), st.priceChange.d, c.minPriceChange>>)
          ELSE IF st.dominantSide = "buy" /\ st.priceChange.n < 0
            THEN Decision(FALSE, "Buy dominance but price down", << >>)
          ELSE IF st.dominantSide = "sell" /\ st.priceChange.n > 0
            THEN Decision(FALSE, "Sell dominance but price up", << >>)
          ELSE IF ~aggressionCheck.allowed
            THEN Decision(FALSE,
                          IF aggressionCheck.reason = "No volume"
                          THEN "Aggression: No volume"
                          ELSE "Aggression: Aggression still high",
                          aggressionCheck.args)
          ELSE IF ~stopCheck.allowed
            THEN Decision(FALSE, stopCheck.reason, stopCheck.args)
          ELSE IF ~timeCheck.allowed
            THEN Decision(FALSE, timeCheck.reason, timeCheck.args)
          ELSE IF ~btcCheck.allowed
            THEN Decision(FALSE, btcCheck.reason, btcCheck.args)
          ELSE Decision(TRUE, "All filters passed", << >>)

\* mutant: the two labels are exchanged
interpretSignal_swapped(stats) ==
  IF stats.dominantSide = "buy"
  THEN [type |-> "LONG_LIQUIDATION", label |-> "LONG LIQUIDATION", direction |-> "SELL"]
  ELSE [type |-> "SHORT_SQUEEZE", label |-> "SHORT SQUEEZE", direction |-> "BUY"]

interpretSignal(stats) ==
  IF stats.dominantSide = "buy"
  THEN [type |-> "SHORT_SQUEEZE", label |-> "SHORT SQUEEZE", direction |-> "BUY"]
  ELSE [type |-> "LONG_LIQUIDATION", label |-> "LONG LIQUIDATION", direction |-> "SELL"]

\* --------------------------------------------------------- CooldownManager
Key(symbol, side) == <<symbol, side>>

\* mutant: an alert exactly cooldownMinutes after the last one is still blocked
canAlert_strict(symbol, stats) ==
  LET config == RuntimeConfig_get(symbolConfigs, symbol)
      lastAlert == lastAlerts[Key(symbol, stats.dominantSide)]
  IN IF config = Null THEN FALSE
     ELSE IF lastAlert = 0 THEN TRUE
     ELSE now - lastAlert > Val(config).cooldownMinutes * MsPerMinute

\* mutant: the cooldown length is read from the base configuration the process
\* started with, not from the runtime configuration
canAlert_baseConfig(symbol, stats) ==
  LET config == RuntimeConfig_get(symbolConfigs, symbol)
      lastAlert == lastAlerts[Key(symbol, stats.dominantSide)]
  IN IF config = Null THEN FALSE
     ELSE IF lastAlert = 0 THEN TRUE
     ELSE now - lastAlert >= SmallConfig.cooldownMinutes * MsPerMinute

\* mutant: cooldownMinutes taken as milliseconds
canAlert_minutesAsMs(symbol, stats) ==
  LET key == Key(symbol, stats.dominantSide)
      lastAlert == lastAlerts[key]
      config == RuntimeConfig_get(symbolConfigs, symbol)
  IN IF config = Null THEN FALSE
     ELSE IF lastAlert = 0 THEN TRUE
     ELSE now - lastAlert >= Val(config).cooldownMinutes

canAlert(symbol, stats) ==
  LET config == RuntimeConfig_get(symbolConfigs, symbol)
      lastAlert == lastAlerts[Key(symbol, stats.dominantSide)]
  IN IF config = Null THEN FALSE
     ELSE IF lastAlert = 0 THEN TRUE
     ELSE LET cooldownMs == Val(config).cooldownMinutes * MsPerMinute
              elapsed == now - lastAlert
          IN elapsed >= cooldownMs

\* mutant: the record is kept per symbol, both sides are stamped
recordAlert_bothSides(symbol, stats) ==
  [k \in DOMAIN lastAlerts |-> IF k[1] = symbol THEN now ELSE lastAlerts[k]]

\* the new lastAlerts
recordAlert(symbol, stats) ==
  [lastAlerts EXCEPT ![Key(symbol, stats.dominantSide)] = now]

\* ------------------------------------------------------------ AlertManager
\* sendAlert up to its setTimeout: the new pending set, timers and aggression
\* history.  A timer is [id, key, at, phase]; id numbers the call.
\* mutant: no pending gate, every call sets a timer
sendAlert_noGate(symbol, stats, id) ==
  LET key == Key(symbol, stats.dominantSide)
      delay == CeilDiv(now, MsPerMinute) * MsPerMinute - now
  IN [pendingAlerts |-> pendingAlerts \cup {key},
      timers |-> timers \cup {[id |-> id, key |-> key, at |-> now + delay,
                               phase |-> "scheduled"]},
      aggressionHistory |->
        recordAggression(aggressionHistory, advancedFilters, symbol, now,
                         stats.buyVolume, stats.sellVolume, stats.priceRange)]

\* mutant: the timer is set for the minute boundary strictly after the decision
sendAlert_boundaryAfter(symbol, stats, id) ==
  LET key == Key(symbol, stats.dominantSide)
      nextMinute == (now \div MsPerMinute + 1) * MsPerMinute
      delay == nextMinute - now
  IN IF key \in pendingAlerts
       THEN [pendingAlerts |-> pendingAlerts, timers |-> timers,
             aggressionHistory |-> aggressionHistory]
     ELSE [pendingAlerts |-> pendingAlerts \cup {key},
           timers |-> timers \cup {[id |-> id, key |-> key, at |-> now + delay,
                                    phase |-> "scheduled"]},
           aggressionHistory |->
             recordAggression(aggressionHistory, advancedFilters, symbol, now,
                              stats.buyVolume, stats.sellVolume, stats.priceRange)]

\* mutant: the reading is recorded before the pending gate is looked at
sendAlert_recordsFirst(symbol, stats, id) ==
  LET key == Key(symbol, stats.dominantSide)
      nextMinute == CeilDiv(now, MsPerMinute) * MsPerMinute
      delay == nextMinute - now
      history == recordAggression(aggressionHistory, advancedFilters, symbol, now,
                                  stats.buyVolume, stats.sellVolume, stats.priceRange)
  IN IF key \in pendingAlerts
       THEN [pendingAlerts |-> pendingAlerts, timers |-> timers,
             aggressionHistory |-> history]
     ELSE [pendingAlerts |-> pendingAlerts \cup {key},
           timers |-> timers \cup {[id |-> id, key |-> key, at |-> now + delay,
                                    phase |-> "scheduled"]},
           aggressionHistory |-> history]

sendAlert(symbol, stats, id) ==
  LET key == Key(symbol, stats.dominantSide)
      nextMinute == CeilDiv(now, MsPerMinute) * MsPerMinute
      delay == nextMinute - now
  IN IF key \in pendingAlerts
       THEN [pendingAlerts |-> pendingAlerts, timers |-> timers,
             aggressionHistory |-> aggressionHistory]
     ELSE [pendingAlerts |-> pendingAlerts \cup {key},
           timers |-> timers \cup {[id |-> id, key |-> key, at |-> now + delay,
                                    phase |-> "scheduled"]},
           aggressionHistory |->
             recordAggression(aggressionHistory, advancedFilters, symbol, now,
                              stats.buyVolume, stats.sellVolume, stats.priceRange)]

\* ------------------------------------------------------------ src/index.js
\* The variant of the program in src/index.js: its aggregator, signal engine,
\* cooldown manager, alert manager and the message handler with the
\* per-minute gate. runtimeState is symbolConfigs and advancedFilters.
IndexSides == {"BUY", "SELL"}

\* CONFIG.WINDOW_SECONDS (180) * 1000
Index_windowMs == 3 * MsPerMinute

\* the objects as the constructor of BinanceFuturesFlowBot makes them
Index_constructed ==
  [lastMinuteCheck |-> [s \in Symbols |-> 0],
   trades |-> [s \in {} |-> [buys |-> << >>, sells |-> << >>]],
   cooldowns |-> [k \in Symbols \X IndexSides |-> 0],
   btcPaused |-> FALSE,
   stopPaused |-> FALSE,
   candleHistory |-> [s \in Symbols |-> << >>],
   pendingAlerts |-> 0,
   alertCount |-> 0,
   sending |-> {},
   received |-> 0,
   checks |-> [s \in Symbols |-> << >>]]

Index_addTrade(trs, symbol, trade, t) ==
  LET data == IF symbol \in DOMAIN trs THEN trs[symbol]
              ELSE [buys |-> << >>, sells |-> << >>]
      cutoff == t - Index_windowMs
      entry == [price |-> trade.p, qty |-> trade.q, time |-> trade.T]
      pushed(list) == SelectSeq(Append(list, entry), LAMBDA e : e.time > cutoff)
      new == IF trade.m THEN [data EXCEPT !.sells = pushed(data.sells)]
             ELSE [data EXCEPT !.buys = pushed(data.buys)]
  IN [s \in (DOMAIN trs) \cup {symbol} |-> IF s = symbol THEN new ELSE trs[s]]

Index_volume(e) == e.price * e.qty
Index_price(e) == e.price

Index_getStats(trs, symbol, t) ==
  IF symbol \notin DOMAIN trs THEN Null
  ELSE LET cutoff == t - Index_windowMs
           activeBuys == SelectSeq(trs[symbol].buys, LAMBDA e : e.time > cutoff)
           activeSells == SelectSeq(trs[symbol].sells, LAMBDA e : e.time > cutoff)
           buyVolume == SeqSum(Map(activeBuys, Index_volume))
           sellVolume == SeqSum(Map(activeSells, Index_volume))
           totalVolume == buyVolume + sellVolume
           allPrices == Map(activeBuys \o activeSells, Index_price)
       IN IF activeBuys = << >> /\ activeSells = << >> THEN Null
          ELSE IF totalVolume = 0 THEN Null
          ELSE Some(
            [symbol |-> symbol,
             totalVolumeUSD |-> totalVolume,
             buyVolumeUSD |-> buyVolume,
             sellVolumeUSD |-> sellVolume,
             buyDominance |-> Rat(buyVolume * 100, totalVolume),
             sellDominance |-> Rat(sellVolume * 100, totalVolume),
             dominantSide |-> IF buyVolume > sellVolume THEN "BUY" ELSE "SELL",
             priceChange |-> Rat((SeqMax(allPrices) - SeqMin(allPrices)) * 100,
                                 SeqMin(allPrices)),
             tradeCount |-> Len(activeBuys) + Len(activeSells)])

Index_resetSymbol(trs, symbol) == [s \in (DOMAIN trs) \ {symbol} |-> trs[s]]

\* AggressionDecayFilter.checkDecay(...).passed
Index_checkDecay(history, filters, symbol, currentDominance) ==
  LET filter == filters.aggressionDecay
      sum == RatSum(history[symbol])
      count == Len(history[symbol])
  IN IF ~filter.enabled THEN TRUE
     ELSE IF count < filter.minCandles THEN TRUE
     ELSE ~(currentDominance.n * count * sum.d * 100
              < filter.decayThreshold * sum.n * currentDominance.d)

Index_recordCandle(history, filters, symbol, dominance) ==
  LET filter == filters.aggressionDecay
      pushed == Append(history[symbol], dominance)
  IN IF ~filter.enabled THEN history
     ELSE [history EXCEPT ![symbol] = IF Len(pushed) > filter.lookbackMinutes
                                      THEN Tail(pushed) ELSE pushed]

\* SignalEngine.checkSignal(stats).signal at time t
Index_checkSignal(st, cfgs, filters, stats, t) ==
  LET config == RuntimeConfig_get(cfgs, stats.symbol)
      c == Val(config)
      tb == filters.timeBased
      hour == getUTCHours(t)
      dominance == IF stats.dominantSide = "BUY" THEN stats.buyDominance
                   ELSE stats.sellDominance
  IN /\ config # Null
     /\ c.enabled
     /\ ~(filters.btcVolatility.enabled /\ st.btcPaused)
     /\ ~(filters.stopCluster.enabled /\ st.stopPaused)
     /\ tb.enabled =>
          /\ getUTCDay(t) \notin tb.blockedDays
          /\ hour \notin tb.blockedHours
          /\ hour >= tb.allowedHoursStart
          /\ hour < tb.allowedHoursEnd
     /\ stats.totalVolumeUSD >= c.minVolumeUSD
     /\ RatGe(dominance, Rat(c.minDominance, 1))
     /\ RatGe(stats.priceChange, Rat(c.minPriceChange, 100))
     /\ Index_checkDecay(st.candleHistory, filters, stats.symbol, dominance)

\* CooldownManager.isInCooldown: the answer and the map it leaves
Index_isInCooldown(cooldowns, symbol, side, t) ==
  LET cooldownUntil == cooldowns[<<symbol, side>>]
  IN IF cooldownUntil = 0 THEN [result |-> FALSE, cooldowns |-> cooldowns]
     ELSE IF t < cooldownUntil THEN [result |-> TRUE, cooldowns |-> cooldowns]
     ELSE [result |-> FALSE, cooldowns |-> [cooldowns EXCEPT ![<<symbol, side>>] = 0]]

Index_recordAlert(cooldowns, cfgs, symbol, stats, t) ==
  LET config == RuntimeConfig_get(cfgs, symbol)
  IN IF config = Null THEN cooldowns
     ELSE [cooldowns EXCEPT ![<<symbol, stats.dominantSide>>] =
             t + Val(config).cooldownMinutes * MsPerMinute]

\* mutant: the gate opens again within the minute it has stamped
Index_minuteGate_sameMinute(currentMinute, lastChecked) == currentMinute >= lastChecked

\* the test of handleMessage on the minute of the last evaluation
Index_minuteGate(currentMinute, lastChecked) == currentMinute > lastChecked

\* MultiWebSocketManager.handleMessage of src/index.js with the calls it
\* makes, up to the await of AlertManager.sendAlert: the objects it leaves
Index_handleMessage(st, cfgs, filters, symbol, data, t) ==
  LET added == [st EXCEPT !.trades = Index_addTrade(st.trades, symbol, data, t)]
      currentMinute == t \div MsPerMinute
      lastChecked == st.lastMinuteCheck[symbol]
      stamped == [added EXCEPT !.lastMinuteCheck[symbol] = currentMinute,
                               !.checks[symbol] = Append(@, currentMinute)]
      stats == Index_getStats(added.trades, symbol, t)
      cd == Index_isInCooldown(st.cooldowns, symbol, Val(stats).dominantSide, t)
      dominance == IF Val(stats).dominantSide = "BUY" THEN Val(stats).buyDominance
                   ELSE Val(stats).sellDominance
  IN IF data.bad THEN st
     ELSE IF ~Index_minuteGate(currentMinute, lastChecked) THEN added
     ELSE IF stats = Null THEN stamped
     ELSE IF ~Index_checkSignal(st, cfgs, filters, Val(stats), t) THEN stamped
     ELSE IF cd.result THEN [stamped EXCEPT !.cooldowns = cd.cooldowns]
     ELSE [stamped EXCEPT
             !.pendingAlerts = @ + 1,
             !.sending = @ \cup {[id |-> st.received + 1, symbol |-> symbol,
                                  dominance |-> dominance]},
             !.cooldowns = Index_recordAlert(cd.cooldowns, cfgs, symbol, Val(stats), t),
             !.trades = Index_resetSymbol(added.trades, symbol)]

\* ------------------------------------------------------------ construction
\* CONFIG.ADVANCED_FILTERS
DefaultFilters ==
  [aggressionDecay |-> [enabled |-> TRUE, lookbackMinutes |-> 3, decayThreshold |-> 85,
                        minCandles |-> 2],
   stopCluster |-> [enabled |-> TRUE, maxStops |-> 2, timeWindowMinutes |-> 30,
                    pauseMinutes |-> 30],
   timeBased |-> [enabled |-> TRUE, blockedDays |-> {}, blockedHours |-> {},
                  allowedHoursStart |-> 6, allowedHoursEnd |-> 18],
   btcVolatility |-> [enabled |-> TRUE, checkIntervalMinutes |-> 1,
                      timeframeMinutes |-> 10, thresholdPercent |-> 2,
                      pauseMinutes |-> 15]]

NoObs == [symbol |-> "", side |-> ""]
NoRec == [symbol |-> "", side |-> "", at |-> 0, cooldownMinutes |-> 0]

\* the objects as BinanceFuturesFlowBot's constructor makes them
\* MultiWebSocketManager as its constructor leaves it
NotConnected ==
  /\ sockets = {}
  /\ connections = [s \in Symbols |-> 0]
  /\ reconnectAttempts = [s \in Symbols |-> 0]
  /\ connTimers = {}
  /\ abandoned = [s \in Symbols |-> FALSE]
  /\ closesSinceOpen = [s \in Symbols |-> 0]
  /\ shutdownPhase = "running"
  /\ indexJs = Index_constructed

\* the state after construction, given the per-symbol configuration and the
\* advanced-filter settings the process was started with
ConstructedWith(cfgs, filters) ==
  /\ symbolConfigs = cfgs
  /\ advancedFilters = filters
  /\ states = EmptyMap
  /\ aggressionHistory = [s \in {} |-> << >>]
  /\ stopLossEvents = << >>
  /\ stopPausedUntil = 0
  /\ btcPriceHistory = << >>
  /\ btcPausedUntil = 0
  /\ lastBTCPrice = Null
  /\ lastAlertTime = 0
  /\ btcAlerts = << >>
  /\ btcPolls = 0
  /\ lastAlerts = [k \in Keys |-> 0]
  /\ pendingAlerts = {}
  /\ alertCount = 0
  /\ timers = {}
  /\ NotConnected
  /\ recorded = [s \in Symbols |-> << >>]
  /\ inOrder = [s \in Symbols |-> TRUE]
  /\ maxTs = [s \in Symbols |-> 0]
  /\ nTrades = 0
  /\ lastOp = "init"
  /\ obs = NoObs
  /\ evals = << >>
  /\ lastFired = [k \in Keys |-> 0]
  /\ lastRec = NoRec
  /\ cdChanged = FALSE

Constructed == ConstructedWith([s \in Symbols |-> SmallConfig], DefaultFilters)

\* ------------------------------------------- the aggregator on its own
AggInit ==
  /\ Constructed
  /\ now = 1

LatestTs(s) == SeqMax(Map(recorded[s], LAMBDA t : t.timestamp))

AggAddTrade(symbol, timestamp, price, quantity, isBuyerMaker) ==
  /\ nTrades < MaxTrades
  /\ states' = Aggregator_addTrade(states, symbol, timestamp, price, quantity,
                                   isBuyerMaker)
  /\ inOrder' = [inOrder EXCEPT ![symbol] = @ /\ timestamp >= maxTs[symbol]]
  /\ maxTs' = [maxTs EXCEPT ![symbol] = Max(@, timestamp)]
  /\ recorded' = [recorded EXCEPT ![symbol] =
                   Append(@, [timestamp |-> timestamp, price |-> price,
                              quantity |-> quantity])]
  /\ nTrades' = nTrades + 1
  /\ lastOp' = "addTrade"
  /\ UNCHANGED <<now, connVars, cfgVars, filterVars, btcVars, cdVars, alertVars, obs, evals,
                 fireHist>>

AggResetSymbol(symbol) ==
  /\ states' = Aggregator_resetSymbol(states, symbol)
  /\ recorded' = [recorded EXCEPT ![symbol] = << >>]
  /\ lastOp' = "resetSymbol"
  /\ UNCHANGED <<now, connVars, inOrder, maxTs, nTrades, cfgVars, filterVars, btcVars, cdVars,
                 alertVars, obs, evals, fireHist>>

AggNext ==
  \/ \E s \in Symbols, ts \in 1..MaxTs, p \in Prices, q \in Quantities,
        m \in BOOLEAN : AggAddTrade(s, ts, p, q, m)
  \/ \E s \in Symbols : AggResetSymbol(s)

SpecAgg == AggInit /\ [][AggNext]_vars

\* the window the spec describes: the recorded trades no older than the
\* greatest recorded timestamp minus the window length
InWindow(s) ==
  SelectSeq(recorded[s], LAMBDA t : t.timestamp >= LatestTs(s) - WindowMs)

ExpectedVolume(s) == SeqSum(Map(InWindow(s), LAMBDA t : t.price * t.quantity))

VolumeIsWindowSum(s) ==
  LET stats == Aggregator_getStats(states, s)
  IN stats # Null /\ Val(stats).totalVolume = ExpectedVolume(s)

\* C1 (as claimed): for any sequence of trades recorded for a symbol,
\* getStats(symbol).totalVolume is the sum of price * quantity over exactly the
\* recorded, not yet reset trades with timestamp >= latestTimestamp - windowMs,
\* latestTimestamp being the greatest timestamp recorded.
C1_AnySequence ==
  \A s \in Symbols : recorded[s] # << >> => VolumeIsWindowSum(s)

\* C1 (amended): the same, for trades that arrive with non-decreasing
\* timestamps.
C1_TotalVolumeInOrder ==
  \A s \in Symbols : (inOrder[s] /\ recorded[s] # << >>) => VolumeIsWindowSum(s)

\* an in-order stream of which a trade has been evicted and one kept
C1_Witness ==
  \E s \in Symbols :
    /\ inOrder[s]
    /\ Len(recorded[s]) >= 2
    /\ s \in DOMAIN states
    /\ Len(states[s].trades) < Len(recorded[s])
    /\ Len(states[s].trades) >= 1


\* ------------------------------------- the cooldown manager on its own
StartTime == 1

\* values an operator sends with /set SYMBOL cooldownMinutes VALUE
CooldownValues == {Some(-1), Some(0), Some(1), Some(2)}

CdInit ==
  /\ Constructed
  /\ now = StartTime

CdTick ==
  /\ now < StartTime + MaxTicks
  /\ now' = now + 1
  /\ lastOp' = "tick"
  /\ obs' = NoObs
  /\ UNCHANGED <<progVars, connVars, tradeHist, evals, fireHist>>

CdRecordAlert(symbol, side) ==
  /\ nTrades < MaxRecords
  /\ nTrades' = nTrades + 1
  /\ lastAlerts' = recordAlert(symbol, [dominantSide |-> side])
  /\ lastFired' = [lastFired EXCEPT ![Key(symbol, side)] = now]
  /\ lastRec' = [symbol |-> symbol, side |-> side, at |-> now,
                 cooldownMinutes |-> symbolConfigs[symbol].cooldownMinutes]
  /\ lastOp' = "recordAlert"
  /\ obs' = NoObs
  /\ UNCHANGED <<now, connVars, cfgVars, aggVars, filterVars, btcVars, alertVars, recorded,
                 inOrder, maxTs, evals, cdChanged>>

CdCanAlert(symbol, side) ==
  /\ lastOp' = "canAlert"
  /\ obs' = [symbol |-> symbol, side |-> side,
             result |-> canAlert(symbol, [dominantSide |-> side])]
  /\ UNCHANGED <<now, connVars, progVars, tradeHist, evals, fireHist>>

ConfigSet(symbol, param, value) ==
  LET r == RuntimeConfig_set(symbolConfigs, symbol, param, value)
  IN /\ symbolConfigs' = r.cfgs
     /\ cdChanged' = (cdChanged \/ (r.ok /\ param = "cooldownMinutes"
                                    /\ r.oldValue # r.newValue))
     /\ lastOp' = "set"
     /\ obs' = [symbol |-> symbol, side |-> "", ok |-> r.ok]
     /\ UNCHANGED <<now, connVars, advancedFilters, aggVars, filterVars, btcVars, cdVars,
                    alertVars, tradeHist, evals, lastFired, lastRec>>

CdNext ==
  \/ CdTick
  \/ \E s \in Symbols, side \in Sides : CdRecordAlert(s, side)
  \/ \E s \in Symbols, side \in Sides : CdCanAlert(s, side)
  \/ \E s \in Symbols, v \in CooldownValues : ConfigSet(s, "cooldownMinutes", v)

SpecCooldown == CdInit /\ [][CdNext]_vars

ObsKey == Key(obs.symbol, obs.side)
CooldownMsNow(symbol) == symbolConfigs[symbol].cooldownMinutes * MsPerMinute

C4_CooldownReadLive ==
  (lastOp = "canAlert" /\ lastFired[ObsKey] > 0)
    => (obs.result <=> now - lastFired[ObsKey] >= CooldownMsNow(obs.symbol))

\* a cooldown in progress that a lower cooldownMinutes has ended early
C4_Witness ==
  /\ lastOp = "canAlert"
  /\ obs.symbol = lastRec.symbol /\ obs.side = lastRec.side
  /\ now - lastRec.at < lastRec.cooldownMinutes * MsPerMinute
  /\ now - lastRec.at >= CooldownMsNow(obs.symbol)
  /\ obs.result

\* a cooldown that had run out and that a higher cooldownMinutes blocks again
C4_WitnessLonger ==
  /\ lastOp = "canAlert"
  /\ obs.symbol = lastRec.symbol /\ obs.side = lastRec.side
  /\ now - lastRec.at >= lastRec.cooldownMinutes * MsPerMinute
  /\ now - lastRec.at < CooldownMsNow(obs.symbol)
  /\ ~obs.result

\* ------------------------------------------------------------ the pipeline
\* 06:00 UTC of the first day, inside the time filter's allowed hours
PipeStart == 6 * 60 * MsPerMinute

\* what a stream delivers: text JSON.parse rejects, or an aggTrade event whose
\* event time T is the time of arrival
Messages(t) ==
  {[bad |-> TRUE, p |-> 0, q |-> 0, T |-> 0, m |-> FALSE]} \cup
  [bad : {FALSE}, p : Prices, q : {1}, T : {t}, m : BOOLEAN]

\* cooldownMinutes the process may be started with
PipeCooldowns == {1, 2}

PipeInit ==
  /\ \E c \in PipeCooldowns :
       ConstructedWith([s \in Symbols |-> [SmallConfig EXCEPT !.cooldownMinutes = c]],
                       DefaultFilters)
  /\ now = PipeStart

Tick ==
  /\ now < PipeStart + MaxTicks
  /\ now' = now + 1
  /\ lastOp' = "tick"
  /\ obs' = NoObs
  /\ UNCHANGED <<progVars, connVars, tradeHist, evals, fireHist>>

\* mutant: a message that cannot be parsed empties the window of its symbol
windowsAfterParseError_cleared(sts, symbol) == Aggregator_resetSymbol(sts, symbol)

\* the trade windows after the catch block of handleMessage, which only logs
windowsAfterParseError(sts, symbol) == sts

\* MultiWebSocketManager.handleMessage, with the calls it makes
handleMessage(symbol, data) ==
  LET added == Aggregator_addTrade(states, symbol, data.T, data.p, data.q, data.m)
      stats == Aggregator_getStats(added, symbol)
      config == RuntimeConfig_get(symbolConfigs, symbol)
      gate == /\ stats # Null
              /\ config # Null
              /\ 2 * Val(stats).totalVolume >= Val(config).minVolumeUSD
      signalCheck == shouldAlert(symbol, stats)
      fire == gate /\ signalCheck.allow /\ canAlert(symbol, Val(stats))
      key == Key(symbol, Val(stats).dominantSide)
      sent == sendAlert(symbol, Val(stats), nTrades + 1)
  IN /\ nTrades' = nTrades + 1
     /\ lastOp' = "handleMessage"
     /\ IF data.bad
          THEN /\ obs' = [symbol |-> symbol, side |-> "", fired |-> FALSE,
                          wasPending |-> FALSE, prev |-> 0, tradeCount |-> 0,
                          since |-> 0]
               /\ states' = windowsAfterParseError(states, symbol)
               /\ UNCHANGED <<filterVars, cdVars, alertVars, fireHist, recorded>>
        ELSE IF fire
          THEN /\ pendingAlerts' = sent.pendingAlerts
               /\ timers' = sent.timers
               /\ aggressionHistory' = sent.aggressionHistory
               /\ lastAlerts' = recordAlert(symbol, Val(stats))
               /\ states' = Aggregator_resetSymbol(added, symbol)
               /\ lastFired' = [lastFired EXCEPT ![key] = now]
               /\ lastRec' = [symbol |-> symbol, side |-> key[2], at |-> now,
                              cooldownMinutes |-> Val(config).cooldownMinutes]
               /\ recorded' = [recorded EXCEPT ![symbol] = << >>]
               /\ obs' = [symbol |-> symbol, side |-> key[2], fired |-> TRUE,
                          wasPending |-> key \in pendingAlerts,
                          prev |-> lastFired[key],
                          tradeCount |-> Val(stats).tradeCount,
                          since |-> Len(recorded[symbol]) + 1]
               /\ UNCHANGED <<alertCount, stopLossEvents, stopPausedUntil, cdChanged>>
        ELSE /\ states' = added
             /\ recorded' = [recorded EXCEPT ![symbol] =
                              Append(@, [timestamp |-> data.T, price |-> data.p,
                                         quantity |-> data.q])]
             /\ obs' = [symbol |-> symbol, side |-> "", fired |-> FALSE,
                        wasPending |-> FALSE, prev |-> 0, tradeCount |-> 0,
                        since |-> 0]
             /\ UNCHANGED <<filterVars, cdVars, alertVars, fireHist>>
     /\ UNCHANGED <<now, connVars, cfgVars, btcVars, inOrder, maxTs>>

\* a message event of the stream of a symbol
HandleMessage(symbol, data) ==
  /\ nTrades < MaxMsgs
  /\ handleMessage(symbol, data)
  /\ UNCHANGED evals

\* the timer of sendAlert fires: the callback formats the message and awaits
\* telegram.sendMessage
TimerFire(t) ==
  /\ t.phase = "scheduled"
  /\ now >= t.at
  /\ timers' = (timers \ {t}) \cup {[t EXCEPT !.phase = "sending"]}
  /\ lastOp' = "timerFire"
  /\ obs' = [symbol |-> t.key[1], side |-> t.key[2]]
  /\ UNCHANGED <<now, connVars, cfgVars, aggVars, filterVars, btcVars, cdVars, pendingAlerts,
                 alertCount, tradeHist, evals, fireHist>>

\* mutant: a dispatch whose delivery failed is scheduled again
timersAfterDelivery_retry(tms, t, ok) ==
  IF ok THEN tms \ {t} ELSE (tms \ {t}) \cup {[t EXCEPT !.phase = "scheduled"]}

\* the dispatches left when the callback of t has ended, delivered or not:
\* the callback sets no timer
timersAfterDelivery(tms, t, ok) == tms \ {t}

\* mutant: the key is deleted in the try block, after a delivery that succeeded
pendingAfterDelivery_onSuccess(pending, t, ok) ==
  IF ok THEN pending \ {t.key} ELSE pending

\* the pending keys after the finally block of the callback of t
pendingAfterDelivery(pending, t, ok) == pending \ {t.key}

\* telegram.sendMessage resolves (ok) or rejects; then the finally block
DeliveryDone(t, ok) ==
  /\ t.phase = "sending"
  /\ timers' = timersAfterDelivery(timers, t, ok)
  /\ alertCount' = IF ok THEN alertCount + 1 ELSE alertCount
  /\ pendingAlerts' = pendingAfterDelivery(pendingAlerts, t, ok)
  /\ lastOp' = IF ok THEN "delivered" ELSE "deliveryFailed"
  /\ obs' = [symbol |-> t.key[1], side |-> t.key[2]]
  /\ UNCHANGED <<now, connVars, cfgVars, aggVars, filterVars, btcVars, cdVars, tradeHist, evals,
                 fireHist>>

Next ==
  \/ Tick
  \/ \E s \in Symbols : \E d \in Messages(now) : HandleMessage(s, d)
  \/ \E t \in timers : TimerFire(t)
  \/ \E t \in timers, ok \in BOOLEAN : DeliveryDone(t, ok)

Spec == PipeInit /\ [][Next]_vars

Fired == lastOp = "handleMessage" /\ obs.fired

TimersOf(key) == {t \in timers : t.key = key}

\* C5: at every moment at most one alert dispatch is pending (scheduled, not
\* yet delivered) per (symbol, direction) key; a sendAlert call for a key that
\* is pending schedules nothing, and the suppressed alert is not kept for later:
\* the only dispatch of the key is the one that was pending.
C5_OnePendingPerKey ==
  /\ [](\A k \in Keys : /\ Cardinality(TimersOf(k)) <= 1
                        /\ (k \in pendingAlerts <=> TimersOf(k) # {}))
  /\ [][(Fired' /\ obs'.wasPending) => (timers' = timers /\ pendingAlerts' = pendingAlerts)]_vars

\* sendAlert was called for a key whose dispatch was still pending
C5_Witness ==
  /\ Fired
  /\ obs.wasPending
  /\ Cardinality(TimersOf(ObsKey)) = 1

WindowEmpty(symbol) ==
  /\ symbol \in DOMAIN states => states[symbol].trades = << >>
  /\ Aggregator_getStats(states, symbol) = Null

\* C14: right after handleMessage fires an alert for a symbol the symbol's
\* window holds no trades and getStats returns null, an empty window stays
\* empty until the next trade message of the symbol, and the fired snapshot
\* counts only trades recorded since the symbol's previous alert (recorded
\* holds them), so a trade is in the snapshot of at most one fired alert.
C14_WindowEmptyAfterAlert ==
  /\ [](Fired => (WindowEmpty(obs.symbol) /\ obs.tradeCount <= obs.since))
  /\ [][\A s \in Symbols :
          (WindowEmpty(s) /\ ~(lastOp' = "handleMessage" /\ obs'.symbol = s))
            => WindowEmpty(s)']_vars

\* a second alert of a symbol, for the other side, whose snapshot holds the one
\* trade recorded after the first alert
C14_Witness ==
  /\ Fired
  /\ \A side \in Sides : lastFired[Key(obs.symbol, side)] > 0
  /\ obs.tradeCount = 1
  /\ WindowEmpty(obs.symbol)

\* --------------------------------------------------- the BTC kill-switch
BtcPrices == {100, 102, 103}
\* timeframeMinutes, pauseMinutes and thresholdPercent the filter may be
\* configured with (setFilterParam accepts any number)
BtcTimeframes == {1, 2}
BtcPauses == {1, 2}
BtcThresholds == {0, 2}

BtcInit ==
  /\ \E tf \in BtcTimeframes, pm \in BtcPauses, th \in BtcThresholds :
       ConstructedWith([s \in Symbols |-> SmallConfig],
                       [DefaultFilters EXCEPT !.btcVolatility.timeframeMinutes = tf,
                                              !.btcVolatility.pauseMinutes = pm,
                                              !.btcVolatility.thresholdPercent = th])
  /\ now = PipeStart

BtcTick ==
  /\ now < PipeStart + MaxTicks
  /\ now' = now + 1
  /\ lastOp' = "tick"
  /\ obs' = NoObs
  /\ UNCHANGED <<progVars, connVars, tradeHist, evals, fireHist>>

\* checkBTC is invoked (by start or by the interval) and awaits the price
CheckBTCStart ==
  /\ advancedFilters.btcVolatility.enabled
  /\ nTrades < MaxPolls
  /\ nTrades' = nTrades + 1
  /\ btcPolls' = btcPolls + 1
  /\ lastOp' = "checkBTCStart"
  /\ obs' = NoObs
  /\ UNCHANGED <<now, connVars, cfgVars, aggVars, filterVars, cdVars, alertVars, btcPriceHistory,
                 btcPausedUntil, lastBTCPrice, lastAlertTime, btcAlerts, recorded,
                 inOrder, maxTs, evals, fireHist>>

\* the price arrives for one of the waiting invocations
CheckBTCResume(currentPrice) ==
  LET bst == BTCState(btcPriceHistory, btcPausedUntil, lastBTCPrice, lastAlertTime,
                      btcAlerts)
      after == checkBTC(bst, advancedFilters, now, currentPrice)
  IN /\ btcPolls > 0
     /\ btcPolls' = btcPolls - 1
     /\ btcPriceHistory' = after.btcPriceHistory
     /\ btcPausedUntil' = after.pausedUntil
     /\ lastBTCPrice' = after.lastBTCPrice
     /\ lastAlertTime' = after.lastAlertTime
     /\ btcAlerts' = after.btcAlerts
     /\ lastOp' = "checkBTC"
     /\ obs' = [symbol |-> "BTCUSDT", side |-> "",
                breach |-> btcBreach(bst, advancedFilters, now, currentPrice),
                wasPaused |-> now < btcPausedUntil,
                overlapping |-> btcPolls > 1]
     /\ evals' = IF Len(after.btcAlerts) > Len(btcAlerts)
                  THEN after.btcPriceHistory ELSE evals
     /\ UNCHANGED <<now, connVars, cfgVars, aggVars, filterVars, cdVars, alertVars, tradeHist,
                    fireHist>>

\* mutant: a failed poll ends the pause
checkBTCFailed_unpauses(bst) == [bst EXCEPT !.pausedUntil = 0]

\* the filter's fields after a checkBTC whose request was rejected
checkBTCFailed(bst) == bst

\* axios.get rejects (network error or timeout): the catch block only logs
CheckBTCFail ==
  LET bst == BTCState(btcPriceHistory, btcPausedUntil, lastBTCPrice, lastAlertTime,
                      btcAlerts)
      after == checkBTCFailed(bst)
  IN /\ btcPolls > 0
     /\ btcPolls' = btcPolls - 1
     /\ btcPriceHistory' = after.btcPriceHistory
     /\ btcPausedUntil' = after.pausedUntil
     /\ lastBTCPrice' = after.lastBTCPrice
     /\ lastAlertTime' = after.lastAlertTime
     /\ btcAlerts' = after.btcAlerts
     /\ lastOp' = "checkBTCFailed"
     /\ obs' = NoObs
     /\ UNCHANGED <<now, connVars, cfgVars, aggVars, filterVars, cdVars, alertVars, tradeHist,
                    evals, fireHist>>

BtcNext ==
  \/ BtcTick
  \/ CheckBTCStart
  \/ \E p \in BtcPrices : CheckBTCResume(p)
  \/ CheckBTCFail

SpecBTC == BtcInit /\ [][BtcNext]_vars

\* C10: from the poll that notifies of BTC volatility and sets pausedUntil to
\* the end of that pause, no step emits another notification (btcAlerts grows
\* by one per notification) and pausedUntil keeps its value, whatever prices
\* the polls return and however overlapping checkBTC invocations interleave.
C10_NoRenotifyWhilePaused ==
  [][now < btcPausedUntil
       => (btcPausedUntil' = btcPausedUntil /\ btcAlerts' = btcAlerts)]_vars

\* a poll that overlapped another one saw a breach during the pause
C10_Witness ==
  /\ lastOp = "checkBTC"
  /\ obs.breach
  /\ obs.wasPaused
  /\ obs.overlapping
  /\ Len(btcAlerts) = 1

\* the price samples of the trailing timeframe at a poll that has just
\* returned: what the history held before, and the new sample
SamplesAtPoll ==
  SelectSeq(Append(btcPriceHistory, [timestamp |-> now, price |-> Val(lastBTCPrice')]),
            LAMBDA h : h.timestamp >= now - advancedFilters.btcVolatility.timeframeMinutes
                                            * MsPerMinute)

\* |newest - oldest| / oldest * 100 >= thresholdPercent on these samples
ChangeAtPoll ==
  Abs(SamplesAtPoll[Len(SamplesAtPoll)].price - SamplesAtPoll[1].price) * 100
    >= advancedFilters.btcVolatility.thresholdPercent * SamplesAtPoll[1].price

PauseFromNow == now + advancedFilters.btcVolatility.pauseMinutes * MsPerMinute

DeniesWhilePaused ==
  (advancedFilters.btcVolatility.enabled /\ now < btcPausedUntil)
    => ~BTC_isTradingAllowed(btcPausedUntil, advancedFilters, now).allowed

\* C11 as stated: at a poll made while no pause is active, a change from the
\* oldest to the newest sample of the trailing timeframe of at least
\* thresholdPercent sets pausedUntil to now + pauseMinutes, a smaller change sets
\* no pause, and isTradingAllowed denies at every time before pausedUntil.
C11_AnySamples ==
  /\ []DeniesWhilePaused
  /\ [][(lastOp' = "checkBTC" /\ ~obs'.wasPaused)
          => IF ChangeAtPoll THEN btcPausedUntil' = PauseFromNow
             ELSE btcPausedUntil' = btcPausedUntil]_vars

\* C11: at a poll made while no pause is active, if the trailing timeframe
\* holds at least two samples and the change from the oldest to the newest is
\* at least thresholdPercent, pausedUntil becomes now + pauseMinutes; otherwise
\* the poll sets no pause; isTradingAllowed denies at every time before
\* pausedUntil while the filter is enabled.
C11_BreachPauses ==
  /\ []DeniesWhilePaused
  /\ [][(lastOp' = "checkBTC" /\ ~obs'.wasPaused)
          => IF Len(SamplesAtPoll) >= 2 /\ ChangeAtPoll
             THEN btcPausedUntil' = PauseFromNow
             ELSE btcPausedUntil' = btcPausedUntil]_vars

\* a poll outside a pause found a change of exactly the threshold of 2 percent
\* and trading is denied
C11_Witness ==
  /\ lastOp = "checkBTC"
  /\ ~obs.wasPaused
  /\ obs.breach
  /\ advancedFilters.btcVolatility.thresholdPercent = 2
  /\ btcPriceHistory[1].price = 100
  /\ lastBTCPrice = Some(102)
  /\ btcPausedUntil > now
  /\ ~BTC_isTradingAllowed(btcPausedUntil, advancedFilters, now).allowed

\* C12: after a notification, a further one is emitted only by a poll that is
\* made when the pause has expired and that finds a breach of its own, between
\* samples that were not both in the history at the poll of the previous
\* notification (evals holds that history).
C12_RearmAfterExpiry ==
  [][(Len(btcAlerts') > Len(btcAlerts) /\ Len(btcAlerts) >= 1)
       => /\ now >= btcPausedUntil
          /\ now >= lastAlertTime + btcAlerts[Len(btcAlerts)].pauseMinutes * MsPerMinute
          /\ Len(SamplesAtPoll) >= 2 /\ ChangeAtPoll
          /\ ~(\E i, j \in DOMAIN evals : /\ evals[i] = SamplesAtPoll[1]
                                          /\ evals[j] = SamplesAtPoll[Len(SamplesAtPoll)])]_vars

\* a second notification, from a poll at the very end of the first pause whose
\* oldest sample is the one that made the first breach
C12_Witness ==
  /\ lastOp = "checkBTC"
  /\ Len(btcAlerts) = 2
  /\ btcAlerts[2].timestamp = btcAlerts[1].timestamp
                                + btcAlerts[1].pauseMinutes * MsPerMinute
  /\ btcPriceHistory[1].timestamp <= btcAlerts[1].timestamp

\* ------------------------------------------------------ the signal engine
\* the state the engine is evaluated in is drawn from what the program's own
\* operations build: windows from addTrade, the aggression history from
\* recordAggression, the pauses from recordStopLoss and checkBTC
EngTrades == [p : Prices, q : {1}, m : BOOLEAN]
EngWindows == {<< >>} \cup {<<a>> : a \in EngTrades} \cup {<<a, b>> : a, b \in EngTrades}

RECURSIVE WindowOf(_, _)
WindowOf(w, t) ==
  IF w = << >> THEN NewSymbolState
  ELSE LET last == w[Len(w)]
       IN addTrade(WindowOf(SubSeq(w, 1, Len(w) - 1), t), t, last.p, last.q, last.m)

EngConfigs ==
  [minVolumeUSD : {2}, minDominance : {65, 100}, minPriceChange : {0, 6000},
   cooldownMinutes : {1}, enabled : {TRUE}]
    \cup {[SmallConfig EXCEPT !.enabled = FALSE]}

\* which of the four filters are enabled: all, all but the time filter, none
EngEnabled == {<<TRUE, TRUE>>, <<TRUE, FALSE>>, <<FALSE, FALSE>>}

FiltersWith(en) ==
  [DefaultFilters EXCEPT !.aggressionDecay.enabled = en[1],
                         !.stopCluster.enabled = en[1],
                         !.btcVolatility.enabled = en[1],
                         !.timeBased.enabled = en[2]]

\* dominant volume of the two alerts recorded for ADAUSDT before the start (0: none)
EngHistories == {0, 1, 4}

HistoryOf(h, t) ==
  IF h = 0 THEN [s \in {} |-> << >>]
  ELSE recordAggression(
         recordAggression([s \in {} |-> << >>], DefaultFilters, "ADAUSDT", t - 1, h, 0, 0),
         DefaultFilters, "ADAUSDT", t - 1, h, 0, 0)

\* when a pause is to end, relative to the start (0: there was no pause)
EngStopEnds == {0, 1, 3}
EngBtcEnds == {0, 1}

StopAt(end, t) ==
  IF end = 0 THEN [stopLossEvents |-> << >>, pausedUntil |-> 0]
  ELSE LET at == t + end - DefaultFilters.stopCluster.pauseMinutes * MsPerMinute
           one == recordStopLoss(<< >>, 0, DefaultFilters, at, "ADAUSDT")
       IN recordStopLoss(one.stopLossEvents, one.pausedUntil, DefaultFilters, at, "XRPUSDT")

BtcAt(end, t) ==
  IF end = 0 THEN BTCState(<< >>, 0, Null, 0, << >>)
  ELSE LET at == t + end - DefaultFilters.btcVolatility.pauseMinutes * MsPerMinute
       IN checkBTC(checkBTC(BTCState(<< >>, 0, Null, 0, << >>), DefaultFilters, at - 1, 100),
                   DefaultFilters, at, 103)

\* 06:00, and the last moment before the allowed hours end at 18:00
EngStarts == {PipeStart, 18 * 60 * MsPerMinute - 1}

EngInit ==
  \E t \in EngStarts, cfg \in EngConfigs, w \in EngWindows, h \in EngHistories,
     en \in EngEnabled, se \in EngStopEnds, be \in EngBtcEnds :
    /\ now = t
    /\ symbolConfigs = [s \in Symbols |-> IF s = "ADAUSDT" THEN cfg ELSE SmallConfig]
    /\ advancedFilters = FiltersWith(en)
    /\ states = IF w = << >> THEN EmptyMap ELSE [s \in Symbols |-> WindowOf(w, t)]
    /\ aggressionHistory = HistoryOf(h, t)
    /\ stopLossEvents = StopAt(se, t).stopLossEvents
    /\ stopPausedUntil = StopAt(se, t).pausedUntil
    /\ btcPriceHistory = BtcAt(be, t).btcPriceHistory
    /\ btcPausedUntil = BtcAt(be, t).pausedUntil
    /\ lastBTCPrice = BtcAt(be, t).lastBTCPrice
    /\ lastAlertTime = BtcAt(be, t).lastAlertTime
    /\ btcAlerts = BtcAt(be, t).btcAlerts
    /\ btcPolls = 0
    /\ lastAlerts = [k \in Keys |-> 0]
    /\ pendingAlerts = {}
    /\ alertCount = 0
    /\ timers = {}
    /\ NotConnected
    /\ recorded = [s \in Symbols |-> << >>]
    /\ inOrder = [s \in Symbols |-> TRUE]
    /\ maxTs = [s \in Symbols |-> 0]
    /\ nTrades = 0
    /\ lastOp = "init"
    /\ obs = NoObs
    /\ evals = << >>
    /\ lastFired = [k \in Keys |-> 0]
    /\ lastRec = NoRec
    /\ cdChanged = FALSE

EngTick ==
  /\ \E t \in EngStarts : now \in t .. t + EngTicks - 1
  /\ now' = now + 1
  /\ lastOp' = "tick"
  /\ obs' = NoObs
  /\ UNCHANGED <<progVars, connVars, tradeHist, evals, fireHist>>

\* what an evaluation is given
EvalInputs(symbol) ==
  [config |-> RuntimeConfig_get(symbolConfigs, symbol),
   filters |-> advancedFilters,
   stats |-> Aggregator_getStats(states, symbol),
   history |-> IF symbol \in DOMAIN aggressionHistory
               THEN aggressionHistory[symbol] ELSE << >>,
   stop |-> <<stopLossEvents, stopPausedUntil>>,
   btc |-> <<btcPriceHistory, btcPausedUntil>>]

\* one call of SignalEngine.shouldAlert on the current snapshot of the symbol
Evaluate(symbol) ==
  LET stats == Aggregator_getStats(states, symbol)
      result == shouldAlert(symbol, stats)
  IN /\ Len(evals) < MaxEvals
     /\ evals' = Append(evals, [symbol |-> symbol, at |-> now,
                                inputs |-> EvalInputs(symbol), result |-> result])
     /\ obs' = [symbol |-> symbol, side |-> "", stats |-> stats, result |-> result]
     /\ lastOp' = "shouldAlert"
     /\ stopPausedUntil' = pausedUntilAfter(stopPausedUntil, advancedFilters, now)
     /\ btcPausedUntil' = pausedUntilAfter(btcPausedUntil, advancedFilters, now)
     /\ UNCHANGED <<now, connVars, cfgVars, aggVars, aggressionHistory, stopLossEvents,
                    btcPriceHistory, lastBTCPrice, lastAlertTime, btcAlerts, btcPolls,
                    cdVars, alertVars, tradeHist, fireHist>>

EngNext ==
  \/ EngTick
  \/ \E s \in Symbols : Evaluate(s)

SpecEngine == EngInit /\ [][EngNext]_vars

Evaluated == lastOp = "shouldAlert" /\ obs.stats # Null

\* the nine checks in the order of the source, each stated on its own:
\* TRUE where the check fails for the snapshot st of the symbol
FailedChecks(symbol, st) ==
  LET config == RuntimeConfig_get(symbolConfigs, symbol)
      c == IF config = Null THEN SmallConfig ELSE Val(config)
      hour == getUTCHours(now)
      tb == advancedFilters.timeBased
  IN {k \in 1 .. 9 :
        CASE k = 1 -> config = Null \/ ~c.enabled
          [] k = 2 -> st.totalVolume < c.minVolumeUSD
          [] k = 3 -> st.dominance.n < c.minDominance * st.dominance.d
          [] k = 4 -> Abs(st.priceChange.n) * 100 < c.minPriceChange * st.priceChange.d
          [] k = 5 -> \/ st.dominantSide = "buy" /\ st.priceChange.n < 0
                      \/ st.dominantSide = "sell" /\ st.priceChange.n > 0
          [] k = 6 -> ~shouldAllowEntry(aggressionHistory, advancedFilters, symbol,
                                        st.buyVolume, st.sellVolume, st.priceRange).allowed
          [] k = 7 -> advancedFilters.stopCluster.enabled /\ now < stopPausedUntil
          [] k = 8 -> /\ tb.enabled
                      /\ \/ getUTCDay(now) \in tb.blockedDays
                         \/ hour \in tb.blockedHours
                         \/ hour < tb.allowedHoursStart
                         \/ hour >= tb.allowedHoursEnd
          [] k = 9 -> advancedFilters.btcVolatility.enabled /\ now < btcPausedUntil}

ReasonsOf(k) ==
  CASE k = 1 -> {"Symbol disabled"}
    [] k = 2 -> {"Volume too low"}
    [] k = 3 -> {"Dominance too low"}
    [] k = 4 -> {"Price change too small"}
    [] k = 5 -> {"Buy dominance but price down", "Sell dominance but price up"}
    [] k = 6 -> {"Aggression: No volume", "Aggression: Aggression still high"}
    [] k = 7 -> {"Stop cluster pause active"}
    [] k = 8 -> {"Trading blocked on day", "Trading blocked at hour", "Outside trading hours"}
    [] k = 9 -> {"BTC volatility pause"}

First(failed) == CHOOSE k \in failed : \A j \in failed : k <= j

\* C6: shouldAlert checks in the order disabled, volume, dominance, price
\* change, direction, aggression decay, stop cluster, time, BTC, and the denial
\* it returns carries the reason of the first check in this order that fails,
\* whatever later checks fail as well; when none fails it allows.
C6_FirstFailingCheck ==
  Evaluated =>
    LET failed == FailedChecks(obs.symbol, Val(obs.stats))
    IN IF failed = {} THEN obs.result.allow
       ELSE ~obs.result.allow /\ obs.result.reason \in ReasonsOf(First(failed))

\* the claim's example: buy-dominant with a price fall smaller than
\* minPriceChange, outside trading hours as well, is denied for the price change
C6_Witness ==
  /\ Evaluated
  /\ {4, 5, 8} \subseteq FailedChecks(obs.symbol, Val(obs.stats))
  /\ Val(obs.stats).dominantSide = "buy"
  /\ obs.result.reason = "Price change too small"

\* C7: whenever shouldAlert allows, the symbol is enabled, totalVolume >=
\* minVolumeUSD, dominance >= minDominance, |priceChange| >= minPriceChange, the
\* dominant side does not disagree with the sign of the price change, and none
\* of the four filters denies at that moment.
C7_AllowImpliesAllChecks ==
  (Evaluated /\ obs.result.allow) =>
    LET st == Val(obs.stats)
        c == symbolConfigs[obs.symbol]
        hour == getUTCHours(now)
        tb == advancedFilters.timeBased
    IN /\ c.enabled
       /\ st.totalVolume >= c.minVolumeUSD
       /\ st.dominance.n >= c.minDominance * st.dominance.d
       /\ Abs(st.priceChange.n) * 100 >= c.minPriceChange * st.priceChange.d
       /\ ~(st.dominantSide = "buy" /\ st.priceChange.n < 0)
       /\ ~(st.dominantSide = "sell" /\ st.priceChange.n > 0)
       /\ shouldAllowEntry(aggressionHistory, advancedFilters, obs.symbol,
                           st.buyVolume, st.sellVolume, st.priceRange).allowed
       /\ advancedFilters.stopCluster.enabled => now >= stopPausedUntil
       /\ advancedFilters.btcVolatility.enabled => now >= btcPausedUntil
       /\ tb.enabled => /\ getUTCDay(now) \notin tb.blockedDays
                        /\ hour \notin tb.blockedHours
                        /\ hour >= tb.allowedHoursStart
                        /\ hour < tb.allowedHoursEnd

\* an allow with every filter enabled, an aggression history long enough to be
\* compared against, and both pauses just expired
C7_Witness ==
  /\ Evaluated
  /\ obs.result.allow
  /\ advancedFilters = DefaultFilters
  /\ obs.symbol \in DOMAIN aggressionHistory
  /\ stopPausedUntil = now
  /\ btcPausedUntil = now

\* C8: an evaluation of shouldAlert leaves the configuration, the trade
\* windows, the aggression history, the stop-loss log, both pause-until
\* timestamps, the cooldown records and the pending alerts as they were,
\* whatever it returns.
C8_EvaluationChangesNothing ==
  [][lastOp' = "shouldAlert" => UNCHANGED progVars]_vars

\* an allowing and a denying evaluation have been made, the later one after a
\* pause had expired
C8_Witness ==
  /\ Len(evals) = 2
  /\ lastOp = "shouldAlert"
  /\ evals[1].result.allow # evals[2].result.allow
  /\ stopPausedUntil > 0
  /\ now >= stopPausedUntil

StopMaxStops == {1, 2}
StopWindows == {1}
StopPauses == {1, 2}

StopInit ==
  /\ \E ms \in StopMaxStops, tw \in StopWindows, pm \in StopPauses :
       ConstructedWith([s \in Symbols |-> SmallConfig],
                       [DefaultFilters EXCEPT !.stopCluster.maxStops = ms,
                                              !.stopCluster.timeWindowMinutes = tw,
                                              !.stopCluster.pauseMinutes = pm])
  /\ now = PipeStart

StopTick ==
  /\ now < PipeStart + MaxTicks
  /\ now' = now + 1
  /\ lastOp' = "tick"
  /\ obs' = NoObs
  /\ UNCHANGED <<progVars, connVars, tradeHist, evals, fireHist>>

\* StopClusterProtection.recordStopLoss(symbol); evals keeps the times of all
\* the events that were logged
RecordStopLoss(symbol) ==
  LET after == recordStopLoss(stopLossEvents, stopPausedUntil, advancedFilters, now, symbol)
  IN /\ nTrades < MaxStopCalls
     /\ nTrades' = nTrades + 1
     /\ stopLossEvents' = after.stopLossEvents
     /\ stopPausedUntil' = after.pausedUntil
     /\ evals' = IF advancedFilters.stopCluster.enabled THEN Append(evals, now) ELSE evals
     /\ lastOp' = "recordStopLoss"
     /\ obs' = [symbol |-> symbol, side |-> "",
                enabled |-> advancedFilters.stopCluster.enabled]
     /\ UNCHANGED <<now, connVars, cfgVars, aggVars, aggressionHistory, btcVars, cdVars, alertVars,
                    recorded, inOrder, maxTs, fireHist>>

\* /filter stopCluster enabled <text>
StopSetEnabled(text) ==
  LET result == setFilterParam(advancedFilters, "stopCluster", "enabled", TextValue(text))
  IN /\ advancedFilters' = result.filters
     /\ advancedFilters' # advancedFilters
     /\ lastOp' = "setFilterParam"
     /\ obs' = NoObs
     /\ UNCHANGED <<now, connVars, symbolConfigs, aggVars, filterVars, btcVars, cdVars, alertVars,
                    tradeHist, evals, fireHist>>

StopNext ==
  \/ StopTick
  \/ \E s \in Symbols : RecordStopLoss(s)
  \/ \E text \in {"true", "false"} : StopSetEnabled(text)

SpecStop == StopInit /\ [][StopNext]_vars

\* the logged events within the trailing window, counting the new one
StopsInWindow ==
  Cardinality({i \in DOMAIN evals :
                 evals[i] >= now - advancedFilters.stopCluster.timeWindowMinutes
                                   * MsPerMinute}) + 1

StopPauseFromNow == now + advancedFilters.stopCluster.pauseMinutes * MsPerMinute

\* C13 as stated: recordStopLoss sets the pause-until timestamp exactly when
\* the number of logged events within the trailing timeWindowMinutes, counting
\* the new one, reaches maxStops.
C13_AnyCall ==
  [][lastOp' = "recordStopLoss"
       => IF StopsInWindow >= advancedFilters.stopCluster.maxStops
          THEN stopPausedUntil' = StopPauseFromNow
          ELSE stopPausedUntil' = stopPausedUntil]_vars

\* C13: while the stop-cluster filter is enabled, recordStopLoss sets the
\* pause-until timestamp exactly when the number of logged events within the
\* trailing timeWindowMinutes, counting the new one, reaches maxStops, and the
\* log then holds exactly the events of the window; events older than the
\* window never count.  While the filter is disabled the call changes nothing.
C13_PauseOnCluster ==
  [][lastOp' = "recordStopLoss"
       => IF ~advancedFilters.stopCluster.enabled
            THEN stopPausedUntil' = stopPausedUntil /\ stopLossEvents' = stopLossEvents
          ELSE /\ Len(stopLossEvents') = StopsInWindow
               /\ IF StopsInWindow >= advancedFilters.stopCluster.maxStops
                  THEN stopPausedUntil' = StopPauseFromNow
                  ELSE stopPausedUntil' = stopPausedUntil]_vars

\* with maxStops 2: two calls within the window paused trading, and a third
\* call, made when both were older than the window, did not pause again
C13_Witness ==
  /\ lastOp = "recordStopLoss"
  /\ advancedFilters.stopCluster.maxStops = 2
  /\ Len(evals) = 3
  /\ Len(stopLossEvents) = 1
  /\ stopPausedUntil = evals[2] + advancedFilters.stopCluster.pauseMinutes * MsPerMinute
  /\ StopCluster_isTradingAllowed(stopPausedUntil, advancedFilters, now).allowed

\* ------------------------------------------------ the connection manager
\* 5000 ms, the step of the reconnect delay, is one clock unit here
ReconnectStep == 1

\* mutant: every reconnect waits the same time
reconnectDelay_constant(attempts) == ReconnectStep

\* 5000 * (attempts + 1)
reconnectDelay(attempts) == ReconnectStep * (attempts + 1)

\* mutant: one more attempt is made before giving up
reconnectSymbol_oneMore(attempts, ctimers, symbol, t) ==
  IF attempts[symbol] > MAX_RECONNECTS
    THEN [reconnectAttempts |-> attempts, connTimers |-> ctimers, gaveUp |-> TRUE]
  ELSE [reconnectAttempts |-> [attempts EXCEPT ![symbol] = @ + 1],
        connTimers |-> ctimers \cup {[symbol |-> symbol,
                                      at |-> t + reconnectDelay(attempts[symbol]),
                                      attempt |-> attempts[symbol] + 1]},
        gaveUp |-> FALSE]

\* reconnectSymbol(symbol) at time t: the attempts map and the timers after it
reconnectSymbol(attempts, ctimers, symbol, t) ==
  IF attempts[symbol] >= MAX_RECONNECTS
    THEN [reconnectAttempts |-> attempts, connTimers |-> ctimers, gaveUp |-> TRUE]
  ELSE [reconnectAttempts |-> [attempts EXCEPT ![symbol] = @ + 1],
        connTimers |-> ctimers \cup {[symbol |-> symbol,
                                      at |-> t + reconnectDelay(attempts[symbol]),
                                      attempt |-> attempts[symbol] + 1]},
        gaveUp |-> FALSE]

\* connectSymbol(symbol): a new socket, connecting, stored in connections
connectSymbol(socks, conns, symbol) ==
  [sockets |-> socks \cup {[symbol |-> symbol, n |-> conns[symbol] + 1,
                            state |-> "connecting"]},
   connections |-> [conns EXCEPT ![symbol] = @ + 1]]

\* mutant: an open clears the attempts of every symbol
onOpen_clearAll(attempts, symbol) == [s \in DOMAIN attempts |-> 0]

\* mutant: an open leaves the attempts as they are
onOpen_keep(attempts, symbol) == attempts

\* the open handler: reconnectAttempts.set(symbol, 0)
onOpen(attempts, symbol) == [attempts EXCEPT ![symbol] = 0]

\* mutant: the error handler schedules a reconnect as the close handler does
onError_reconnects(attempts, ctimers, symbol, t) ==
  [reconnectAttempts |-> [attempts EXCEPT ![symbol] = @ + 1],
   connTimers |-> ctimers \cup {[symbol |-> symbol,
                                 at |-> t + reconnectDelay(attempts[symbol]),
                                 attempt |-> attempts[symbol] + 1]}]

\* the error handler only logs
onError(attempts, ctimers, symbol, t) ==
  [reconnectAttempts |-> attempts, connTimers |-> ctimers]

\* mutant: a new connection starts from an empty window
windowsAfterConnect_cleared(sts, symbol) == Aggregator_resetSymbol(sts, symbol)

\* the trade windows after connectSymbol: it does not touch the aggregator
windowsAfterConnect(sts, symbol) == sts

\* what the streams deliver in this specification
ConnMessages(t) == {[bad |-> FALSE, p |-> 1, q |-> 1, T |-> t, m |-> FALSE]}

\* the clock of this specification
ConnTick ==
  /\ now < PipeStart + ConnTicks
  /\ now' = now + 1
  /\ lastOp' = "tick"
  /\ obs' = NoObs
  /\ UNCHANGED <<progVars, connVars, tradeHist, evals, fireHist>>

\* connectAll, called once by start(): a timer per symbol, 200 ms apart,
\* all within the first clock unit
ConnectAll ==
  /\ lastOp = "init"
  /\ connTimers' = {[symbol |-> s, at |-> now, attempt |-> 0] : s \in Symbols}
  /\ lastOp' = "connectAll"
  /\ obs' = NoObs
  /\ UNCHANGED <<now, indexJs, shutdownPhase, progVars, sockets, connections, reconnectAttempts, abandoned,
                 closesSinceOpen, tradeHist, evals, fireHist>>

\* a timer of connectAll or reconnectSymbol runs connectSymbol
ConnTimerRun(t) ==
  LET c == connectSymbol(sockets, connections, t.symbol)
  IN /\ now >= t.at
     /\ connTimers' = connTimers \ {t}
     /\ sockets' = c.sockets
     /\ connections' = c.connections
     /\ states' = windowsAfterConnect(states, t.symbol)
     /\ lastOp' = "connect"
     /\ obs' = [symbol |-> t.symbol, side |-> ""]
     /\ UNCHANGED <<now, indexJs, shutdownPhase, cfgVars, filterVars, btcVars, cdVars, alertVars,
                    reconnectAttempts, abandoned, closesSinceOpen, tradeHist, evals,
                    fireHist>>

\* the open event of a socket
SocketOpen(ws) ==
  /\ ws.state = "connecting"
  /\ sockets' = (sockets \ {ws}) \cup {[ws EXCEPT !.state = "open"]}
  /\ reconnectAttempts' = onOpen(reconnectAttempts, ws.symbol)
  /\ closesSinceOpen' = [closesSinceOpen EXCEPT ![ws.symbol] = 0]
  /\ lastOp' = "open"
  /\ obs' = [symbol |-> ws.symbol, side |-> ""]
  /\ UNCHANGED <<now, indexJs, shutdownPhase, progVars, connections, connTimers, abandoned, tradeHist, evals,
                 fireHist>>

\* the error event of a socket
SocketError(ws) ==
  LET r == onError(reconnectAttempts, connTimers, ws.symbol, now)
  IN /\ reconnectAttempts' = r.reconnectAttempts
     /\ connTimers' = r.connTimers
     /\ lastOp' = "error"
     /\ obs' = [symbol |-> ws.symbol, side |-> ""]
     /\ UNCHANGED <<now, indexJs, shutdownPhase, progVars, sockets, connections, abandoned, closesSinceOpen,
                    tradeHist, evals, fireHist>>

\* the close event of a socket, which a socket emits once
SocketClose(ws) ==
  LET r == reconnectSymbol(reconnectAttempts, connTimers, ws.symbol, now)
  IN /\ sockets' = sockets \ {ws}
     /\ reconnectAttempts' = r.reconnectAttempts
     /\ connTimers' = r.connTimers
     /\ abandoned' = [abandoned EXCEPT ![ws.symbol] = @ \/ r.gaveUp]
     /\ closesSinceOpen' = [closesSinceOpen EXCEPT ![ws.symbol] = @ + 1]
     /\ lastOp' = "close"
     /\ obs' = [symbol |-> ws.symbol, side |-> "", found |-> reconnectAttempts[ws.symbol],
                gaveUp |-> r.gaveUp]
     /\ UNCHANGED <<now, indexJs, shutdownPhase, progVars, connections, tradeHist, evals, fireHist>>

\* the message event of an open socket
ConnMessage(ws, data) ==
  /\ ws.state = "open"
  /\ HandleMessage(ws.symbol, data)

ConnNext ==
  \/ ConnTick
  \/ ConnectAll
  \/ \E t \in connTimers : ConnTimerRun(t)
  \/ \E ws \in sockets : SocketOpen(ws)
  \/ \E ws \in sockets : SocketError(ws)
  \/ \E ws \in sockets : SocketClose(ws)
  \/ \E ws \in sockets : \E d \in ConnMessages(now) : ConnMessage(ws, d)

\* minVolumeUSD the process may be started with: met by one trade, or by three
ConnVolumes == {2, 6}

ConnInit ==
  /\ \E v \in ConnVolumes :
       ConstructedWith([s \in Symbols |-> [SmallConfig EXCEPT !.minVolumeUSD = v]],
                       DefaultFilters)
  /\ now = PipeStart

SpecConn == ConnInit /\ [][ConnNext]_vars

SocketsOf(symbol) == {ws \in sockets : ws.symbol = symbol}
ConnTimersOf(symbol) == {t \in connTimers : t.symbol = symbol}

\* C15: a close event of a symbol schedules no reconnect exactly when it finds
\* the symbol's attempt counter equal to MAX_RECONNECTS, and then it is the
\* close of the MAX_RECONNECTS-th reconnect attempt since the last open (or
\* since the start); from then on the symbol has no socket and no reconnect
\* timer, its connection is never replaced and nothing is scheduled for it.
C15_AbandonedAtMax ==
  /\ [](\A s \in Symbols :
          abandoned[s] => /\ SocketsOf(s) = {}
                          /\ ConnTimersOf(s) = {}
                          /\ reconnectAttempts[s] = MAX_RECONNECTS)
  /\ [][/\ \A s \in Symbols :
             (lastOp' = "close" /\ obs'.symbol = s) =>
                /\ (ConnTimersOf(s)' = ConnTimersOf(s))
                     <=> (reconnectAttempts[s] = MAX_RECONNECTS)
                /\ obs'.gaveUp <=> (reconnectAttempts[s] = MAX_RECONNECTS)
                /\ obs'.gaveUp => closesSinceOpen'[s] = MAX_RECONNECTS + 1
                /\ abandoned'[s] <=> obs'.gaveUp
        /\ \A s \in Symbols :
             abandoned[s] => /\ abandoned'[s]
                             /\ connections'[s] = connections[s]
                             /\ ConnTimersOf(s)' = {}
                             /\ SocketsOf(s)' = {}]_vars

\* a close has just found the counter of its symbol at MAX_RECONNECTS
C15_Witness ==
  /\ lastOp = "close"
  /\ obs.gaveUp
  /\ abandoned[obs.symbol]
  /\ connections[obs.symbol] = MAX_RECONNECTS + 1

\* the trades of a symbol's window, none before its state exists
WindowOfSymbol(sts, symbol) ==
  IF symbol \in DOMAIN sts THEN sts[symbol].trades ELSE << >>

\* C16: a symbol never has more than one socket or pending connect timer in
\* all, so a trade of its stream reaches one socket; the message handler puts
\* that trade once at the end of the symbol's window (older trades may be
\* evicted from the front), or fires on a snapshot that counts it once and
\* empties the window.
C16_OneSubscription ==
  /\ [](\A s \in Symbols :
          Cardinality(SocketsOf(s)) + Cardinality(ConnTimersOf(s)) <= 1)
  /\ [][\A s \in Symbols :
          (lastOp' = "handleMessage" /\ obs'.symbol = s) =>
            LET old == WindowOfSymbol(states, s)
                new == WindowOfSymbol(states', s)
                trade == [timestamp |-> now, price |-> 1, buyVol |-> 1, sellVol |-> 0]
                all == Append(old, trade)
            IN /\ Cardinality({ws \in SocketsOf(s) : ws.state = "open"}) = 1
               /\ nTrades' = nTrades + 1
               /\ IF obs'.fired
                    THEN new = << >> /\ obs'.tradeCount <= Len(all)
                    ELSE \E k \in 1..Len(all) : new = SubSeq(all, k, Len(all))]_vars

\* a trade received over a symbol's second connection follows, in the window,
\* the one received over its first
C16_Witness ==
  /\ lastOp = "handleMessage"
  /\ ~obs.fired
  /\ connections[obs.symbol] = 2
  /\ closesSinceOpen[obs.symbol] = 0
  /\ Len(WindowOfSymbol(states, obs.symbol)) = 2

ConnectionEvents == {"connect", "open", "error", "close"}

\* C17: a connect, open, error or close event of one symbol, whether it
\* schedules a reconnect or gives up, leaves the attempt counter, the
\* connection, the sockets and timers, the trade window, the cooldown records
\* and the abandonment of every other symbol as they were; while a symbol is
\* abandoned the sockets of the others can still close, a close of another
\* symbol schedules its reconnect unless that symbol's own counter is used
\* up, and a trade message of another symbol is recorded or fires as before.
C17_OtherSymbolsUntouched ==
  /\ [](\A s \in Symbols : \A ws \in sockets :
          (abandoned[s] /\ ws.symbol # s) =>
             ENABLED SocketClose(ws))
  /\ [][/\ \A s \in Symbols :
          (lastOp' \in ConnectionEvents /\ obs'.symbol = s) =>
             \A o \in Symbols \ {s} :
               /\ reconnectAttempts'[o] = reconnectAttempts[o]
               /\ connections'[o] = connections[o]
               /\ SocketsOf(o)' = SocketsOf(o)
               /\ ConnTimersOf(o)' = ConnTimersOf(o)
               /\ abandoned'[o] = abandoned[o]
               /\ WindowOfSymbol(states', o) = WindowOfSymbol(states, o)
               /\ (o \in DOMAIN states') = (o \in DOMAIN states)
               /\ \A side \in Sides : lastAlerts'[Key(o, side)] = lastAlerts[Key(o, side)]
               /\ (abandoned[o] /\ lastOp' = "close") =>
                     (ConnTimersOf(s)' # ConnTimersOf(s))
                        <=> (reconnectAttempts[s] < MAX_RECONNECTS)
     /\ \A s \in Symbols :
          (lastOp' = "handleMessage" /\ obs'.symbol = s
             /\ \E o \in Symbols \ {s} : abandoned[o]) =>
             \/ obs'.fired
             \/ Len(WindowOfSymbol(states', s)) >= 1
                  /\ WindowOfSymbol(states', s)[Len(WindowOfSymbol(states', s))].timestamp = now]_vars

\* with one symbol abandoned, the other has reconnected, holds a cooldown
\* record and receives a trade over its second connection
C17_Witness ==
  \E s \in Symbols : \E o \in Symbols \ {s} :
    /\ abandoned[s]
    /\ lastOp = "handleMessage"
    /\ obs.symbol = o
    /\ connections[o] = 2
    /\ \E side \in Sides : lastAlerts[Key(o, side)] # 0

\* C18: the open event of a symbol's socket leaves the symbol's attempt
\* counter at zero, and the counter of every symbol is within
\* 0..MAX_RECONNECTS in every reachable state.
C18_CounterResetAndRange ==
  /\ [](\A s \in Symbols : reconnectAttempts[s] \in 0..MAX_RECONNECTS)
  /\ [][\A s \in Symbols :
          (lastOp' = "open" /\ obs'.symbol = s) => reconnectAttempts'[s] = 0]_vars

\* a socket opened after reconnects had been counted, and the counter is zero
C18_Witness ==
  /\ lastOp = "open"
  /\ connections[obs.symbol] = MAX_RECONNECTS + 1
  /\ reconnectAttempts[obs.symbol] = 0

\* C19: the connect, open, error and close events of a symbol, with the
\* reconnect a close schedules, leave the symbol's trade window exactly as it
\* was, and so does the passage of time: the window changes only when a
\* trade message of the symbol is handled.
C19_WindowKeptAcrossReconnect ==
  [][/\ \A s \in Symbols :
          (lastOp' \in ConnectionEvents /\ obs'.symbol = s) =>
             /\ WindowOfSymbol(states', s) = WindowOfSymbol(states, s)
             /\ states' = states
     /\ \A s \in Symbols :
          WindowOfSymbol(states', s) # WindowOfSymbol(states, s) =>
             (lastOp' = "handleMessage" /\ obs'.symbol = s)]_vars

\* the second connection of a symbol has opened and the trade received over
\* the first, before the disconnect, is still in the window
C19_Witness ==
  /\ lastOp = "open"
  /\ connections[obs.symbol] = 2
  /\ Len(WindowOfSymbol(states, obs.symbol)) >= 1
  /\ WindowOfSymbol(states, obs.symbol)[1].timestamp < now

\* C20: the close that schedules the k-th reconnect of a symbol since its
\* last open (or since the start), k in 1..MAX_RECONNECTS, sets one timer due
\* k delay steps (k * 5000 ms) after that close, and connectSymbol does not
\* run before the timer is due.
C20_LinearBackoff ==
  [][\A s \in Symbols :
       /\ (lastOp' = "close" /\ obs'.symbol = s /\ ~obs'.gaveUp) =>
             LET k == closesSinceOpen'[s]
             IN /\ k \in 1..MAX_RECONNECTS
                /\ k = reconnectAttempts'[s]
                /\ ConnTimersOf(s)' =
                     ConnTimersOf(s) \cup
                       {[symbol |-> s, at |-> now + k * ReconnectStep, attempt |-> k]}
                /\ ConnTimersOf(s)' # ConnTimersOf(s)
       /\ (lastOp' = "connect" /\ obs'.symbol = s) =>
             \A t \in ConnTimersOf(s) \ ConnTimersOf(s)' : now >= t.at]_vars

\* the second consecutive reconnect has just been scheduled, two steps ahead
C20_Witness ==
  /\ lastOp = "close"
  /\ ~obs.gaveUp
  /\ closesSinceOpen[obs.symbol] = 2
  /\ ConnTimersOf(obs.symbol) =
       {[symbol |-> obs.symbol, at |-> now + 2 * ReconnectStep, attempt |-> 2]}

\* ------------------------------------------------------ what a stream sends
\* the kinds of message: one JSON.parse rejects, one whose price parses to 0,
\* one whose quantity parses to 0, and a trade
FeedKinds == {"undecodable", "zeroPrice", "zeroQuantity", "trade"}

FeedMessage(kind, t) ==
  [bad |-> kind = "undecodable",
   p |-> IF kind = "zeroPrice" THEN 0 ELSE 1,
   q |-> IF kind = "zeroQuantity" THEN 0 ELSE 1,
   T |-> t, m |-> FALSE]

\* the message event of an open socket; evals keeps the kinds of the last two
\* messages and the sockets they came over
FeedReceive(ws, kind) ==
  LET entry == [symbol |-> ws.symbol, n |-> ws.n, kind |-> kind]
  IN /\ ws.state = "open"
     /\ nTrades < MaxMsgs
     /\ handleMessage(ws.symbol, FeedMessage(kind, now))
     /\ evals' = IF evals = << >> THEN <<entry>>
                 ELSE <<evals[Len(evals)], entry>>

\* the clock of this specification
FeedTick ==
  /\ now < PipeStart + FeedTicks
  /\ now' = now + 1
  /\ lastOp' = "tick"
  /\ obs' = NoObs
  /\ UNCHANGED <<progVars, connVars, tradeHist, evals, fireHist>>

FeedNext ==
  \/ FeedTick
  \/ ConnectAll
  \/ \E t \in connTimers : ConnTimerRun(t)
  \/ \E ws \in sockets : SocketOpen(ws)
  \/ \E ws \in sockets : SocketClose(ws)
  \/ \E ws \in sockets : \E kind \in FeedKinds : FeedReceive(ws, kind)

FeedInit ==
  /\ \E v \in ConnVolumes :
       ConstructedWith([s \in Symbols |-> [SmallConfig EXCEPT !.minVolumeUSD = v]],
                       DefaultFilters)
  /\ now = PipeStart

SpecFeed == FeedInit /\ [][FeedNext]_vars

\* the kind of the message a step has just handled, "" for any other step
Handled(op, ev) ==
  IF op = "handleMessage" /\ ev # << >> THEN ev[Len(ev)].kind ELSE ""

\* C21: handling a message whose price or whose quantity is not a positive
\* number leaves the symbol's window and its snapshot as they were.
C21_InvalidNotForwarded ==
  [][\A s \in Symbols :
       (Handled(lastOp', evals') \in {"zeroPrice", "zeroQuantity"} /\ obs'.symbol = s) =>
          /\ WindowOfSymbol(states', s) = WindowOfSymbol(states, s)
          /\ Aggregator_getStats(states', s) = Aggregator_getStats(states, s)]_vars

\* C22: handling a message that cannot be decoded changes nothing the
\* program holds: the windows, the cooldown records, the pending alerts and
\* their timers, the aggression history, the sockets, the connections, the
\* attempt counters and the reconnect timers are as before; and a trade that
\* follows it over the same socket is put at the end of the window, or fires
\* and empties it, as any trade is.
C22_UndecodableDropped ==
  [][/\ Handled(lastOp', evals') = "undecodable" =>
          /\ progVars' = progVars
          /\ connVars' = connVars
          /\ recorded' = recorded
     /\ \A s \in Symbols :
          (/\ Handled(lastOp', evals') = "trade"
           /\ Handled(lastOp, evals) = "undecodable"
           /\ obs'.symbol = s
           /\ evals[Len(evals)].symbol = s) =>
             LET old == WindowOfSymbol(states, s)
                 new == WindowOfSymbol(states', s)
                 trade == [timestamp |-> now, price |-> 1, buyVol |-> 1, sellVol |-> 0]
                 all == Append(old, trade)
             IN /\ evals'[Len(evals')].n = evals[Len(evals)].n
                /\ IF obs'.fired
                     THEN new = << >> /\ obs'.tradeCount = Len(all)
                     ELSE new = all]_vars

\* a trade has been handled right after an undecodable message of the same
\* socket, and it is in the window
C22_Witness ==
  /\ lastOp = "handleMessage"
  /\ Len(evals) = 2
  /\ evals[1].kind = "undecodable"
  /\ evals[2].kind = "trade"
  /\ evals[1].symbol = evals[2].symbol
  /\ evals[1].n = evals[2].n
  /\ ~obs.fired
  /\ Len(WindowOfSymbol(states, obs.symbol)) = 1

\* ------------------------------------------------- the configuration calls
\* the symbols, parameter names and values the calls are made with: a
\* configured symbol and one that has no configuration; the four parameters,
\* the enabled flag and a name that is no parameter; NaN, a negative number,
\* a number every parameter accepts, and one above 100
CfgSymbolArgs == {"ADAUSDT", "BTCUSDT"}
CfgParamArgs == ValidParams \cup {"enabled", "bogus"}
CfgValueArgs == {Null, Some(0 - 1), Some(50), Some(101)}

\* the filter names, parameter names and values setFilterParam is called with
CfgFilterArgs == {"stopCluster", "nope"}
CfgFilterParamArgs == {"enabled", "maxStops", "bogus"}
CfgFilterValueArgs == {TextValue("true"), TextValue("false"), TextValue("abc"), NumValue(1)}

CfgFrame ==
  UNCHANGED <<now, connVars, aggVars, filterVars, btcVars, cdVars, alertVars, tradeHist,
              evals, fireHist>>

CfgSet(symbol, param, value) ==
  LET r == RuntimeConfig_set(symbolConfigs, symbol, param, value)
  IN /\ symbolConfigs' = r.cfgs
     /\ lastOp' = "set"
     /\ obs' = [symbol |-> symbol, side |-> "", param |-> param, value |-> value,
                ok |-> r.ok, oldValue |-> r.oldValue, newValue |-> r.newValue]
     /\ UNCHANGED advancedFilters
     /\ CfgFrame

CfgEnable(symbol) ==
  LET r == RuntimeConfig_enable(symbolConfigs, symbol)
  IN /\ symbolConfigs' = r.cfgs
     /\ lastOp' = "enable"
     /\ obs' = [symbol |-> symbol, side |-> "", ok |-> r.ok]
     /\ UNCHANGED advancedFilters
     /\ CfgFrame

CfgDisable(symbol) ==
  LET r == RuntimeConfig_disable(symbolConfigs, symbol)
  IN /\ symbolConfigs' = r.cfgs
     /\ lastOp' = "disable"
     /\ obs' = [symbol |-> symbol, side |-> "", ok |-> r.ok]
     /\ UNCHANGED advancedFilters
     /\ CfgFrame

CfgSetFilterParam(filterName, param, value) ==
  LET r == setFilterParam(advancedFilters, filterName, param, value)
  IN /\ advancedFilters' = r.filters
     /\ lastOp' = "setFilterParam"
     /\ obs' = [symbol |-> "", side |-> "", filterName |-> filterName, param |-> param,
                value |-> value, ok |-> r.ok, oldValue |-> r.oldValue,
                newValue |-> r.newValue]
     /\ UNCHANGED symbolConfigs
     /\ CfgFrame

CfgNext ==
  \/ \E symbol \in CfgSymbolArgs, param \in CfgParamArgs, value \in CfgValueArgs :
       CfgSet(symbol, param, value)
  \/ \E symbol \in CfgSymbolArgs : CfgEnable(symbol)
  \/ \E symbol \in CfgSymbolArgs : CfgDisable(symbol)
  \/ \E filterName \in CfgFilterArgs, param \in CfgFilterParamArgs,
        value \in CfgFilterValueArgs : CfgSetFilterParam(filterName, param, value)

CfgInit ==
  /\ Constructed
  /\ now = StartTime

SpecConfig == CfgInit /\ [][CfgNext]_vars

\* C23: in every state reached by set, enable and disable calls, successful
\* or failing, every symbol has minDominance within 50..100 and minVolumeUSD,
\* minPriceChange and cooldownMinutes >= 0.
C23_ConfigInRange ==
  \A s \in DOMAIN symbolConfigs :
    /\ symbolConfigs[s].minDominance >= 50
    /\ symbolConfigs[s].minDominance <= 100
    /\ symbolConfigs[s].minVolumeUSD >= 0
    /\ symbolConfigs[s].minPriceChange >= 0
    /\ symbolConfigs[s].cooldownMinutes >= 0

\* a minDominance of 101 has just been refused after other values were stored
C23_Witness ==
  /\ lastOp = "set"
  /\ obs.param = "minDominance"
  /\ obs.value = Some(101)
  /\ ~obs.ok
  /\ symbolConfigs["ADAUSDT"].minDominance = 50
  /\ symbolConfigs["ADAUSDT"].minVolumeUSD = 101
  /\ ~symbolConfigs["ADAUSDT"].enabled

\* the arguments set must refuse
SetArgsInvalid(cfgs, symbol, param, value) ==
  \/ symbol \notin DOMAIN cfgs
  \/ param \notin {"minVolumeUSD", "minDominance", "minPriceChange", "cooldownMinutes"}
  \/ value = Null
  \/ param = "minDominance" /\ (Val(value) < 50 \/ Val(value) > 100)
  \/ param # "minDominance" /\ Val(value) < 0

\* C24: a set call with an unknown symbol, a parameter name that is none of
\* the four, a value that is not a number, or a value out of the range of
\* its parameter fails, and the configuration of every symbol and of every
\* filter is afterwards what it was.
C24_FailedSetChangesNothing ==
  [][(lastOp' = "set"
        /\ SetArgsInvalid(symbolConfigs, obs'.symbol, obs'.param, obs'.value)) =>
          /\ ~obs'.ok
          /\ symbolConfigs' = symbolConfigs
          /\ advancedFilters' = advancedFilters]_vars

\* a negative cooldownMinutes has just been refused for a symbol whose
\* configuration earlier calls had changed
C24_Witness ==
  /\ lastOp = "set"
  /\ obs.symbol = "ADAUSDT"
  /\ obs.param = "cooldownMinutes"
  /\ obs.value = Some(0 - 1)
  /\ ~obs.ok
  /\ symbolConfigs["ADAUSDT"].cooldownMinutes = 50
  /\ "bogus" \in DOMAIN advancedFilters["stopCluster"]

\* C25: a setFilterParam call that names no filter, or a parameter the named
\* filter does not have, fails and leaves the filter configuration as it was.
C25_UnknownFilterParamFails ==
  [][(/\ lastOp' = "setFilterParam"
      /\ \/ obs'.filterName \notin DOMAIN advancedFilters
         \/ obs'.param \notin DOMAIN advancedFilters[obs'.filterName]) =>
          /\ ~obs'.ok
          /\ advancedFilters' = advancedFilters]_vars

\* C26: a successful set or setFilterParam call returns as oldValue what the
\* field held before the call and as newValue what it holds after it.
C26_OldAndNewValue ==
  [][/\ (lastOp' = "set" /\ obs'.ok) =>
          /\ obs'.oldValue = symbolConfigs[obs'.symbol][obs'.param]
          /\ obs'.newValue = symbolConfigs'[obs'.symbol][obs'.param]
     /\ (lastOp' = "setFilterParam" /\ obs'.ok) =>
          /\ obs'.oldValue =
               IF obs'.param \in DOMAIN advancedFilters[obs'.filterName]
                 THEN Some(advancedFilters[obs'.filterName][obs'.param]) ELSE Null
          /\ obs'.newValue = Some(advancedFilters'[obs'.filterName][obs'.param])]_vars

\* C27: when the delivery of an alert fails, the cooldown records, the trade
\* windows, the aggression history and the alert count are what they were,
\* the dispatch is gone and nothing is scheduled in its place; a dispatch is
\* attempted only from its scheduled phase and every dispatch is either one
\* that existed, or the one the current message has just scheduled, so no
\* dispatch that has been attempted is attempted again.
C27_FailedDeliveryNoRollbackNoRetry ==
  /\ [](\A t \in timers : t.id <= nTrades)
  /\ [][/\ lastOp' = "deliveryFailed" =>
             /\ lastAlerts' = lastAlerts
             /\ states' = states
             /\ aggressionHistory' = aggressionHistory
             /\ alertCount' = alertCount
             /\ lastFired' = lastFired
             /\ timers' \subseteq timers
             /\ Cardinality(timers') = Cardinality(timers) - 1
             /\ \A t \in timers \ timers' : t.phase = "sending"
        /\ \A t \in timers' \ timers :
             \/ t.phase = "sending" /\ lastOp' = "timerFire"
                  /\ [t EXCEPT !.phase = "scheduled"] \in timers
             \/ t.phase = "scheduled" /\ Fired' /\ t.id = nTrades' /\ nTrades' > nTrades]_vars

\* a delivery has just failed: the key's cooldown record stands, no dispatch
\* of the key is left and the key is not pending
C27_Witness ==
  /\ lastOp = "deliveryFailed"
  /\ lastAlerts[Key(obs.symbol, obs.side)] # 0
  /\ TimersOf(Key(obs.symbol, obs.side)) = {}
  /\ Key(obs.symbol, obs.side) \notin pendingAlerts
  /\ alertCount = 0

\* C28: a poll whose price request fails leaves pausedUntil, the price
\* history, the last price, the alert list and the time of the last alert as
\* they were, and after it a further poll can start as long as the filter is
\* enabled.
C28_FailedPollChangesNothing ==
  /\ []((lastOp = "checkBTCFailed" /\ nTrades < MaxPolls
           /\ advancedFilters.btcVolatility.enabled) => ENABLED CheckBTCStart)
  /\ [][lastOp' = "checkBTCFailed" =>
          /\ btcPausedUntil' = btcPausedUntil
          /\ btcPriceHistory' = btcPriceHistory
          /\ lastBTCPrice' = lastBTCPrice
          /\ btcAlerts' = btcAlerts
          /\ lastAlertTime' = lastAlertTime
          /\ btcPolls' = btcPolls - 1]_vars

\* a poll has failed while trading was paused, and the pause stands
C28_Witness ==
  /\ lastOp = "checkBTCFailed"
  /\ now < btcPausedUntil
  /\ Len(btcPriceHistory) >= 2
  /\ Len(btcAlerts) = 1

\* ------------------------------------------------------------------ shutdown
\* closeAll: close() on every socket the connections map holds, then clear()
closeAll(socks, conns) ==
  [sockets |-> {IF ws.n = conns[ws.symbol] THEN [ws EXCEPT !.state = "closing"] ELSE ws :
                  ws \in socks},
   connections |-> [s \in DOMAIN conns |-> 0]]

\* shutdown() up to its await: closeAll, btcFilter.stop (the interval that
\* starts polls is cleared), then the last message is sent
Shutdown ==
  LET c == closeAll(sockets, connections)
  IN /\ shutdownPhase = "running"
     /\ lastOp # "init"
     /\ shutdownPhase' = "stopping"
     /\ sockets' = c.sockets
     /\ connections' = c.connections
     /\ lastOp' = "shutdown"
     /\ obs' = NoObs
     /\ UNCHANGED <<now, indexJs, progVars, reconnectAttempts, connTimers, abandoned,
                    closesSinceOpen, tradeHist, evals, fireHist>>

\* the last message is delivered: stopPolling and process.exit(0).  When it
\* is rejected shutdown() throws instead of exiting; the process then goes on
\* or is ended by the runtime for the unhandled rejection.
ShutdownEnds(delivered, goesOn) ==
  /\ shutdownPhase = "stopping"
  /\ shutdownPhase' = IF ~delivered /\ goesOn THEN "failed" ELSE "exited"
  /\ lastOp' = "shutdownEnds"
  /\ obs' = NoObs
  /\ UNCHANGED <<now, indexJs, progVars, sockets, connections, reconnectAttempts, connTimers,
                 abandoned, closesSinceOpen, tradeHist, evals, fireHist>>

ShutTick ==
  /\ now < PipeStart + ShutTicks
  /\ now' = now + 1
  /\ lastOp' = "tick"
  /\ obs' = NoObs
  /\ UNCHANGED <<progVars, connVars, tradeHist, evals, fireHist>>

\* the interval of BTCVolatilityFilter.start calls checkBTC
ShutPoll ==
  /\ shutdownPhase = "running"
  /\ btcPolls = 0
  /\ CheckBTCStart

\* the process has not exited
Alive == shutdownPhase # "exited"

ShutNext ==
  \/ ShutTick
  \/ Alive /\ ConnectAll
  \/ Alive /\ \E t \in connTimers : ConnTimerRun(t)
  \/ Alive /\ \E ws \in sockets : SocketOpen(ws)
  \/ Alive /\ \E ws \in sockets : SocketClose(ws)
  \/ Alive /\ \E ws \in sockets : \E d \in ConnMessages(now) : ConnMessage(ws, d)
  \/ Alive /\ \E t \in timers : TimerFire(t)
  \/ Alive /\ \E t \in timers, ok \in BOOLEAN : DeliveryDone(t, ok)
  \/ Alive /\ ShutPoll
  \/ Alive /\ CheckBTCFail
  \/ Shutdown
  \/ \E delivered, goesOn \in BOOLEAN : ShutdownEnds(delivered, goesOn)

ShutInit ==
  /\ Constructed
  /\ now = PipeStart

SpecShutdown == ShutInit /\ [][ShutNext]_vars

\* C29: the step that invokes shutdown leaves no alert dispatch scheduled,
\* and after it no dispatch timer runs its callback, no reconnect is
\* scheduled, no connection is made and no volatility poll is started.
C29_QuietAfterShutdown ==
  [][/\ (shutdownPhase = "running" /\ shutdownPhase' # "running") =>
          {t \in timers' : t.phase = "scheduled"} = {}
     /\ shutdownPhase # "running" =>
          /\ lastOp' \notin {"timerFire", "connect", "checkBTCStart"}
          /\ connTimers' \subseteq connTimers]_vars

\* ------------------------------------------------- snapshots of the window
\* mutant: taking a snapshot consumes the window
statesAfterGetStats_consumed(sts, symbol) == Aggregator_resetSymbol(sts, symbol)

\* the windows after TradeAggregator.getStats(symbol), which assigns nothing
statesAfterGetStats(sts, symbol) == sts

\* evals holds, per symbol, the result of its latest getStats call as long as
\* no addTrade or resetSymbol of the symbol has followed it
StatsKept(ev, symbol) == SelectSeq(ev, LAMBDA r : r.symbol # symbol)

StatFrame ==
  UNCHANGED <<connVars, cfgVars, filterVars, btcVars, cdVars, alertVars, recorded,
              inOrder, maxTs, fireHist>>

StatTick ==
  /\ now < StartTime + StatTicks
  /\ now' = now + 1
  /\ lastOp' = "tick"
  /\ obs' = NoObs
  /\ UNCHANGED <<states, nTrades, evals>>
  /\ StatFrame

StatAddTrade(symbol, price, isBuyerMaker) ==
  /\ nTrades < MaxTrades
  /\ nTrades' = nTrades + 1
  /\ states' = Aggregator_addTrade(states, symbol, now, price, 1, isBuyerMaker)
  /\ evals' = StatsKept(evals, symbol)
  /\ lastOp' = "addTrade"
  /\ obs' = [symbol |-> symbol, side |-> ""]
  /\ UNCHANGED now
  /\ StatFrame

StatResetSymbol(symbol) ==
  /\ states' = Aggregator_resetSymbol(states, symbol)
  /\ evals' = StatsKept(evals, symbol)
  /\ lastOp' = "resetSymbol"
  /\ obs' = [symbol |-> symbol, side |-> ""]
  /\ UNCHANGED <<now, nTrades>>
  /\ StatFrame

StatGetStats(symbol) ==
  LET result == Aggregator_getStats(states, symbol)
  IN /\ states' = statesAfterGetStats(states, symbol)
     /\ evals' = Append(StatsKept(evals, symbol),
                        [symbol |-> symbol, result |-> result, at |-> now])
     /\ lastOp' = "getStats"
     /\ obs' = [symbol |-> symbol, side |-> "", result |-> result,
                prevAt |-> SeqSum(Map(SelectSeq(evals, LAMBDA r : r.symbol = symbol),
                                      LAMBDA r : r.at))]
     /\ UNCHANGED <<now, nTrades>>
     /\ StatFrame

StatNext ==
  \/ StatTick
  \/ \E s \in Symbols, p \in Prices, m \in BOOLEAN : StatAddTrade(s, p, m)
  \/ \E s \in Symbols : StatResetSymbol(s)
  \/ \E s \in Symbols : StatGetStats(s)

StatInit ==
  /\ Constructed
  /\ now = StartTime

SpecStats == StatInit /\ [][StatNext]_vars

\* C30: a getStats call of a symbol returns what the symbol's previous
\* getStats call returned when no addTrade and no resetSymbol of the symbol
\* came between them, however much time passed and whatever was done to other
\* symbols, and a getStats call leaves every window as it was.
C30_GetStatsRepeatable ==
  [][\A s \in Symbols :
       (lastOp' = "getStats" /\ obs'.symbol = s) =>
          /\ states' = states
          /\ \A i \in 1..Len(evals) :
               evals[i].symbol = s => obs'.result = evals[i].result]_vars

\* a second snapshot of a window of two trades, taken later than the first
\* with nothing done to the symbol in between
C30_Witness ==
  /\ lastOp = "getStats"
  /\ obs.result # Null
  /\ Val(obs.result).tradeCount = 2
  /\ Val(obs.result).duration = 1
  /\ obs.prevAt > 0
  /\ obs.prevAt < now

\* -------------------------------------------- one window and its snapshot
\* quantities of the trades of this specification; handleMessage hands on a
\* quantity of zero as it hands on any other
WindowQuantities == {0, 1, 2}

WinNext ==
  \/ \E s \in Symbols, ts \in 1..MaxTs, p \in Prices, q \in WindowQuantities,
        m \in BOOLEAN : AggAddTrade(s, ts, p, q, m)
  \/ \E s \in Symbols : AggResetSymbol(s)

SpecWindow == AggInit /\ [][WinNext]_vars

WindowBuyVolume(st) == SeqSum(Map(st.trades, TradeBuyVol))
WindowSellVolume(st) == SeqSum(Map(st.trades, TradeSellVol))

\* C31: a snapshot getStats returns has a total volume above zero and a
\* dominance that is max(buyVolume, sellVolume) / totalVolume * 100 and lies
\* in [50, 100]; a window whose total volume is zero has no snapshot.
C31_DominanceInRange ==
  \A s \in DOMAIN states :
    LET st == states[s]
        stats == getStats(st)
        buy == WindowBuyVolume(st)
        sell == WindowSellVolume(st)
    IN /\ (buy + sell = 0) => stats = Null
       /\ stats # Null =>
            /\ Val(stats).totalVolume = buy + sell
            /\ Val(stats).totalVolume > 0
            /\ Val(stats).dominance = Rat(Max(buy, sell) * 100, buy + sell)
            /\ RatGe(Val(stats).dominance, Rat(50, 1))
            /\ RatGe(Rat(100, 1), Val(stats).dominance)

\* one window has a snapshot, another holds a trade and no volume and has none
C31_Witness ==
  \E s, z \in DOMAIN states :
    /\ getStats(states[s]) # Null
    /\ Val(getStats(states[s])).totalVolume > 0
    /\ Len(states[z].trades) > 0
    /\ getStats(states[z]) = Null


\* ------------------------------------------- the aggression-decay filter
\* the stored readings of the symbol
ReadingsOf(symbol) ==
  IF symbol \in DOMAIN aggressionHistory THEN aggressionHistory[symbol] ELSE << >>

\* current / average < decayThreshold, average being the sum of the stored
\* readings over their number, stated without a division
BelowDecayThreshold(symbol, st) ==
  LET current == normalizedAggression(st.buyVolume, st.sellVolume, st.priceRange)
      sum == RatSum(Map(ReadingsOf(symbol), LAMBDA h : h.normalizedAggression))
      count == Len(ReadingsOf(symbol))
  IN current.n * count * sum.d * 100
       < advancedFilters.aggressionDecay.decayThreshold * sum.n * current.d

\* C32: with the aggression-decay filter enabled, shouldAllowEntry on a
\* snapshot of a symbol that has at least minCandles stored readings allows
\* exactly when the current normalized aggression over the average of the
\* readings is below decayThreshold, and it allows whenever the symbol has fewer
\* than minCandles readings.
C32_DecayRatioDecides ==
  \A s \in Symbols :
    LET stats == Aggregator_getStats(states, s)
    IN (advancedFilters.aggressionDecay.enabled /\ stats # Null) =>
         LET st == Val(stats)
             entry == shouldAllowEntry(aggressionHistory, advancedFilters, s,
                                       st.buyVolume, st.sellVolume, st.priceRange)
         IN IF Len(ReadingsOf(s)) >= advancedFilters.aggressionDecay.minCandles
              THEN entry.allowed <=> BelowDecayThreshold(s, st)
              ELSE entry.allowed

\* shouldAlert has allowed a snapshot of a symbol whose readings average above
\* it; the same snapshot is allowed for a symbol without readings
C32_Witness ==
  \E s, z \in Symbols :
    /\ Evaluated
    /\ obs.symbol = s
    /\ obs.result.allow
    /\ advancedFilters.aggressionDecay.enabled
    /\ Aggregator_getStats(states, s) # Null
    /\ Len(ReadingsOf(s)) >= advancedFilters.aggressionDecay.minCandles
    /\ LET st == Val(Aggregator_getStats(states, s))
       IN /\ shouldAllowEntry(aggressionHistory, advancedFilters, s, st.buyVolume,
                              st.sellVolume, st.priceRange).reason = "Aggression decaying"
          /\ shouldAllowEntry(aggressionHistory, advancedFilters, z, st.buyVolume,
                              st.sellVolume, st.priceRange).reason
               = "Insufficient aggression history"


\* ------------------------------------------------- the pipeline end to end
\* CONFIG.SYMBOL_CONFIGS.ADAUSDT but for the cooldown: prices are in
\* thousandths of a dollar and quantities in thousands, so that volumes are
\* in dollars
E2EConfig ==
  [minVolumeUSD |-> 1000000, minDominance |-> 65, minPriceChange |-> 60,
   cooldownMinutes |-> 1, enabled |-> TRUE]

\* trades at 0.500 and 0.504: taker buys of about 500,000 and about 700,000
\* dollars, taker sells of about 200,000 and about 700,000 dollars
E2EPrices == {500, 504}
E2EBuyQuantities == {1000, 1392}
E2ESellQuantities == {400, 1392}

E2EMessages(t) ==
  [bad : {FALSE}, p : E2EPrices, q : E2EBuyQuantities, T : {t}, m : {FALSE}] \cup
  [bad : {FALSE}, p : E2EPrices, q : E2ESellQuantities, T : {t}, m : {TRUE}]

\* a message event; evals keeps the snapshot the message was decided on, the
\* decision, and the interpretation handleMessage hands to sendAlert
E2EReceive(symbol, data) ==
  LET added == Aggregator_addTrade(states, symbol, data.T, data.p, data.q, data.m)
      stats == Aggregator_getStats(added, symbol)
  IN /\ nTrades < E2EMsgs
     /\ handleMessage(symbol, data)
     /\ evals' = <<[symbol |-> symbol, stats |-> stats,
                    result |-> shouldAlert(symbol, stats),
                    interpretation |-> IF stats = Null THEN Null
                                       ELSE Some(interpretSignal(Val(stats)))]>>

E2ENext ==
  \/ FeedTick
  \/ \E s \in Symbols : \E d \in E2EMessages(now) : E2EReceive(s, d)
  \/ \E t \in timers : TimerFire(t)
  \/ \E t \in timers, ok \in BOOLEAN : DeliveryDone(t, ok)

E2EInit ==
  /\ ConstructedWith([s \in Symbols |-> E2EConfig], FiltersWith(<<FALSE, FALSE>>))
  /\ now = PipeStart

SpecE2E == E2EInit /\ [][E2ENext]_vars

\* the message just handled was decided on the snapshot of the example:
\* 1,200,000 dollars bought, 200,000 sold, from 0.500 to 0.504
E2EExample ==
  /\ lastOp = "handleMessage"
  /\ evals # << >>
  /\ evals[1].stats # Null
  /\ Val(evals[1].stats).buyVolume = 1200000
  /\ Val(evals[1].stats).sellVolume = 200000
  /\ Val(evals[1].stats).priceChange = Rat((504 - 500) * 100, 500)
  /\ Val(evals[1].stats).lastPrice = Some(504)

\* C33: with minVolumeUSD 1,000,000, minDominance 65, minPriceChange 0.6 and
\* the four filters disabled, the snapshot of 1,200,000 dollars bought and
\* 200,000 sold with the price going from 0.50 to 0.504 is allowed and its
\* alert is labelled BUY, SHORT SQUEEZE; every alert handleMessage sends for a
\* buy-dominant snapshot is labelled BUY, SHORT SQUEEZE and every one for a
\* sell-dominant snapshot SELL, LONG LIQUIDATION.
C33_EndToEnd ==
  /\ E2EExample =>
       /\ evals[1].result.allow
       /\ obs.fired
       /\ obs.side = "buy"
       /\ Val(evals[1].interpretation).direction = "BUY"
       /\ Val(evals[1].interpretation).label = "SHORT SQUEEZE"
  /\ (lastOp = "handleMessage" /\ obs.fired) =>
       /\ evals[1].result.allow
       /\ Val(evals[1].stats).dominantSide = obs.side
       /\ obs.side = "buy" =>
            /\ Val(evals[1].interpretation).direction = "BUY"
            /\ Val(evals[1].interpretation).label = "SHORT SQUEEZE"
       /\ obs.side = "sell" =>
            /\ Val(evals[1].interpretation).direction = "SELL"
            /\ Val(evals[1].interpretation).label = "LONG LIQUIDATION"

\* the example has been handled and its alert is pending
C33_Witness ==
  /\ E2EExample
  /\ obs.fired
  /\ Key(obs.symbol, "buy") \in pendingAlerts
  /\ Val(evals[1].stats).tradeCount = 3


\* ------------------------------------------ when a reading is recorded
\* the dispatch timers of the symbol a step has set
ScheduledFor(symbol) ==
  {t \in timers' \ timers : t.phase = "scheduled" /\ t.key[1] = symbol}

\* the stored readings that are still within the lookback at time t
WithinLookback(readings, t) ==
  SelectSeq(readings,
            LAMBDA h : h.timestamp >= t - advancedFilters.aggressionDecay.lookbackMinutes
                                            * MsPerMinute)

\* C34: a step adds a reading to a symbol's aggression history only if
\* sendAlert sets a dispatch timer for that symbol in the same step, and then
\* it adds exactly one reading, taken at that time; every other step, a
\* message that only records a trade, a denied decision, a decision blocked by
\* the cooldown or a call suppressed by the pending gate among them, leaves the
\* history as it was.
C34_ReadingPerScheduledAlert ==
  [][\A s \in Symbols :
       IF ScheduledFor(s) = {}
         THEN ReadingsOf(s)' = ReadingsOf(s)
         ELSE /\ Cardinality(ScheduledFor(s)) = 1
              /\ lastOp' = "handleMessage"
              /\ obs'.symbol = s
              /\ Len(ReadingsOf(s)') = Len(WithinLookback(ReadingsOf(s), now)) + 1
              /\ SubSeq(ReadingsOf(s)', 1, Len(ReadingsOf(s)') - 1)
                   = WithinLookback(ReadingsOf(s), now)
              /\ ReadingsOf(s)'[Len(ReadingsOf(s)')].timestamp = now]_vars

\* a symbol has two readings from its two scheduled alerts, the other symbol
\* has none
C34_Witness ==
  \E s, z \in Symbols :
    /\ lastOp = "handleMessage"
    /\ Len(ReadingsOf(s)) = 2
    /\ Cardinality({t \in timers : t.key[1] = s}) = 2
    /\ ReadingsOf(z) = << >>


\* --------------------------------------------- the deferral of a dispatch
\* C35: the timer sendAlert sets for an alert decided at time t is set for the
\* smallest whole minute that is >= t, so its delay is at least 0 and less
\* than a minute; its callback runs no earlier than that; and a key is
\* pending exactly while its timer is waiting or its delivery is under way.
C35_DispatchAtNextMinute ==
  /\ [](pendingAlerts = {t.key : t \in timers})
  /\ [][/\ \A t \in timers' \ timers :
            t.phase = "scheduled" =>
              /\ t.at >= now
              /\ t.at - now < MsPerMinute
              /\ t.at % MsPerMinute = 0
              /\ t.key \notin pendingAlerts
        /\ \A t \in timers' \ timers :
            t.phase = "sending" => now >= t.at]_vars

\* an alert decided one unit before the minute boundary: its callback has
\* run after the boundary, the delivery is under way and the key is pending
C35_Witness ==
  \E t \in timers :
    /\ t.phase = "sending"
    /\ t.key \in pendingAlerts
    /\ lastFired[t.key] = t.at - 1
    /\ now > t.at


\* ------------------------------------ the per-minute gate of src/index.js
GateTick ==
  /\ now < PipeStart + GateTicks
  /\ now' = now + 1
  /\ lastOp' = "tick"
  /\ obs' = NoObs
  /\ UNCHANGED <<progVars, connVars, tradeHist, evals, fireHist>>

\* a message event of the stream of a symbol
GateReceive(symbol, data) ==
  /\ indexJs.received < GateMsgs
  /\ indexJs' = [Index_handleMessage(indexJs, symbolConfigs, advancedFilters, symbol,
                                     data, now)
                   EXCEPT !.received = @ + 1]
  /\ lastOp' = "handleMessage"
  /\ obs' = [symbol |-> symbol, side |-> "", bad |-> data.bad]
  /\ UNCHANGED <<now, progVars, sockets, connections, reconnectAttempts, connTimers,
                 abandoned, closesSinceOpen, shutdownPhase, tradeHist, evals, fireHist>>

\* telegram.sendMessage of a sendAlert call resolves (ok) or rejects
GateDeliveryDone(d, ok) ==
  /\ indexJs' =
       IF ok
         THEN [indexJs EXCEPT
                 !.sending = @ \ {d},
                 !.alertCount = @ + 1,
                 !.pendingAlerts = @ - 1,
                 !.candleHistory = Index_recordCandle(@, advancedFilters, d.symbol,
                                                      d.dominance)]
         ELSE [indexJs EXCEPT !.sending = @ \ {d}, !.pendingAlerts = @ - 1]
  /\ lastOp' = IF ok THEN "delivered" ELSE "deliveryFailed"
  /\ obs' = [symbol |-> d.symbol, side |-> ""]
  /\ UNCHANGED <<now, progVars, sockets, connections, reconnectAttempts, connTimers,
                 abandoned, closesSinceOpen, shutdownPhase, tradeHist, evals, fireHist>>

GateNext ==
  \/ GateTick
  \/ \E s \in Symbols : \E d \in Messages(now) : GateReceive(s, d)
  \/ \E d \in indexJs.sending, ok \in BOOLEAN : GateDeliveryDone(d, ok)

GateInit ==
  /\ Constructed
  /\ now = PipeStart

SpecGate == GateInit /\ [][GateNext]_vars

\* the minutes in which the pipeline was evaluated for the symbol
CheckedMinutes(st, symbol) == {st.checks[symbol][i] : i \in 1 .. Len(st.checks[symbol])}

\* C36: handleMessage of src/index.js evaluates the pipeline for a symbol at
\* most once in a wall-clock minute, however many messages of the symbol
\* arrive in it; a decodable message of a symbol is evaluated exactly when the
\* symbol has not been evaluated in the current minute, whatever was evaluated
\* for the other symbols, and it leaves the gates of the other symbols alone.
C36_OncePerMinutePerSymbol ==
  /\ [](\A s \in Symbols :
          \A i, j \in 1 .. Len(indexJs.checks[s]) :
            i < j => indexJs.checks[s][i] < indexJs.checks[s][j])
  /\ [][\A s \in Symbols :
         (lastOp' = "handleMessage" /\ obs'.symbol = s /\ ~obs'.bad) =>
           /\ Len(indexJs'.checks[s]) > Len(indexJs.checks[s])
                <=> (now \div MsPerMinute) \notin CheckedMinutes(indexJs, s)
           /\ \A z \in Symbols \ {s} :
                /\ indexJs'.checks[z] = indexJs.checks[z]
                /\ indexJs'.lastMinuteCheck[z] = indexJs.lastMinuteCheck[z]]_vars

\* within one minute both symbols have been evaluated, one of them on the
\* first of its two messages only
C36_Witness ==
  \E s, z \in Symbols :
    /\ s # z
    /\ lastOp = "handleMessage"
    /\ obs.symbol = s
    /\ indexJs.received = 3
    /\ indexJs.checks[s] = <<now \div MsPerMinute>>
    /\ indexJs.checks[z] = <<now \div MsPerMinute>>


\* ------------------------------- a decision while its key is still pending
\* cooldownMinutes the process may run with: RuntimeConfig.set accepts any
\* value >= 0, so a cooldown below one minute (here none at all) is one of them
PendCooldowns == {0, 1}

PendInit ==
  /\ \E c \in PendCooldowns :
       ConstructedWith([s \in Symbols |-> [SmallConfig EXCEPT !.cooldownMinutes = c]],
                       DefaultFilters)
  /\ now = PipeStart

SpecPending == PendInit /\ [][Next]_vars

\* C37: whenever handleMessage stamps the cooldown of a key and empties the
\* window of its symbol, sendAlert has set a dispatch timer for that key in
\* the same step: the call was not suppressed by the pending gate.
C37_StampOnlyIfScheduled ==
  [][(lastOp' = "handleMessage" /\ obs'.fired) =>
       \E t \in timers' \ timers :
         t.phase = "scheduled" /\ t.key = Key(obs'.symbol, obs'.side)]_vars


\* ------------------------------------------- every dispatch comes to an end
\* trades that fire at once, of either side
LiveMessages(t) == [bad : {FALSE}, p : {2}, q : {1}, T : {t}, m : BOOLEAN]

\* the clock; it does not stop while a timer waits for its time
LiveTick ==
  /\ \/ now < PipeStart + LiveTicks
     \/ \E t \in timers : t.phase = "scheduled" /\ t.at > now
  /\ now' = now + 1
  /\ lastOp' = "tick"
  /\ obs' = NoObs
  /\ UNCHANGED <<progVars, connVars, tradeHist, evals, fireHist>>

LiveNext ==
  \/ LiveTick
  \/ \E s \in Symbols : \E d \in LiveMessages(now) : HandleMessage(s, d)
  \/ \E t \in timers : TimerFire(t)
  \/ \E t \in timers, ok \in BOOLEAN : DeliveryDone(t, ok)

\* time passes, the event loop runs a timer that is due, and the awaited
\* telegram.sendMessage settles
SpecDispatch ==
  /\ PendInit
  /\ [][LiveNext]_vars
  /\ WF_vars(LiveTick)
  /\ WF_vars(\E t \in timers : TimerFire(t))
  /\ WF_vars(\E t \in timers, ok \in BOOLEAN : DeliveryDone(t, ok))

\* C38: every pending key is eventually removed from the pending set; the
\* end of a delivery attempt, successful or failed, removes the key of its
\* timer, after which sendAlert is no longer suppressed for that key; and
\* alertCount goes up by one on a successful delivery and on no other step.
C38_PendingEventuallyCleared ==
  /\ \A k \in Keys : (k \in pendingAlerts) ~> (k \notin pendingAlerts)
  /\ [][/\ lastOp' \in {"delivered", "deliveryFailed"} =>
            /\ Key(obs'.symbol, obs'.side) \in pendingAlerts
            /\ Key(obs'.symbol, obs'.side) \notin pendingAlerts'
        /\ alertCount' = IF lastOp' = "delivered" THEN alertCount + 1 ELSE alertCount
        /\ \A k \in Keys :
             (lastOp' = "handleMessage" /\ obs'.fired /\ Key(obs'.symbol, obs'.side) = k
              /\ k \notin pendingAlerts) =>
               \E t \in timers' \ timers : t.key = k]_vars

\* a key whose first delivery failed has been scheduled again: only the
\* second timer is there, and nothing has been counted
C38_Witness ==
  \E t \in timers :
    /\ t.id = 2
    /\ timers = {t}
    /\ pendingAlerts = {t.key}
    /\ lastFired[t.key] > 0
    /\ nTrades = 2
    /\ alertCount = 0
    /\ \A k \in Keys \ {t.key} : lastFired[k] = 0


\* ------------------------------------------- cooldown records are per key
\* C39: recordAlert(S, side) stamps the record of the key (S, side) and
\* leaves every other record as it was, so canAlert for the opposite side of S
\* and for either side of every other symbol answers as before the call.
C39_RecordAlertPerKey ==
  [][lastOp' = "recordAlert" =>
       /\ lastAlerts'[Key(lastRec'.symbol, lastRec'.side)] = now
       /\ \A k \in Keys \ {Key(lastRec'.symbol, lastRec'.side)} :
            /\ lastAlerts'[k] = lastAlerts[k]
            /\ canAlert(k[1], [dominantSide |-> k[2]])'
                 = canAlert(k[1], [dominantSide |-> k[2]])]_vars

\* a side of a symbol has been stamped while the opposite side was in its
\* cooldown and the other symbol had no record: the opposite side is still
\* blocked, the other symbol still free
C39_Witness ==
  \E k \in Keys, z \in Symbols :
    /\ lastOp = "recordAlert"
    /\ k[1] = lastRec.symbol
    /\ k[2] # lastRec.side
    /\ z # lastRec.symbol
    /\ lastAlerts[k] > 0
    /\ lastAlerts[k] < now
    /\ ~canAlert(k[1], [dominantSide |-> k[2]])
    /\ canAlert(lastRec.symbol, [dominantSide |-> lastRec.side])
         = (symbolConfigs[lastRec.symbol].cooldownMinutes = 0)
    /\ \A side \in Sides : canAlert(z, [dominantSide |-> side])


\* ------------------------------------------- the window after an addTrade
\* C40: after every addTrade the trade just added is the last of the window,
\* lastPrice is its price, firstPrice is the price of the earliest-arrived
\* trade that survived, and highPrice and lowPrice are the greatest and the
\* least price over the surviving trades; the survivors are the trades of the
\* window, the new one included, no older than its timestamp minus the window
\* length.
C40_WindowAfterAddTrade ==
  [][\A s \in Symbols :
       (lastOp' = "addTrade" /\ recorded'[s] # recorded[s]) =>
         LET added == recorded'[s][Len(recorded'[s])]
             before == IF s \in DOMAIN states THEN states[s].trades ELSE << >>
             older == SelectSeq(before,
                                LAMBDA t : t.timestamp >= added.timestamp - WindowMs)
             st == states'[s]
             n == Len(st.trades)
         IN /\ n = Len(older) + 1
            /\ SubSeq(st.trades, 1, n - 1) = older
            /\ st.trades[n].timestamp = added.timestamp
            /\ st.trades[n].price = added.price
            /\ st.trades[n].buyVol + st.trades[n].sellVol = added.price * added.quantity
            /\ st.lastPrice = Some(added.price)
            /\ st.firstPrice = Some(st.trades[1].price)
            /\ \A i \in 1 .. n : /\ st.trades[i].price <= Val(st.highPrice)
                                 /\ st.trades[i].price >= Val(st.lowPrice)
            /\ \E i \in 1 .. n : st.trades[i].price = Val(st.highPrice)
            /\ \E i \in 1 .. n : st.trades[i].price = Val(st.lowPrice)]_vars

\* an addTrade has evicted the one older trade, whose price was the higher
C40_Witness ==
  \E s \in DOMAIN states :
    /\ lastOp = "addTrade"
    /\ Len(recorded[s]) = 2
    /\ recorded[s][1].price > recorded[s][2].price
    /\ Len(states[s].trades) = 1
    /\ states[s].trades[1].timestamp = recorded[s][2].timestamp
    /\ states[s].highPrice = Some(recorded[s][2].price)


=============================================================================
